---- MODULE Spec2Model ----
(***************************************************************************)
(* A model of the ockernel core: the MLFQ scheduler with block/unblock     *)
(* tokens (kernel/src/sched.rs), copy-on-write fork                        *)
(* (src/arch/i586/tasks.rs) and the self-expanding kernel heap             *)
(* (kernel/src/mm/heap.rs).                                                *)
(***************************************************************************)
EXTENDS Integers, Sequences, FiniteSets, TLC

(***************************************************************************)
(* Bounds of the model and constants of the program.                       *)
(***************************************************************************)
NTasks == 2
MaxJiffies == 8
MaxBlocks == 1
MaxExits == 1

TIME_SLICE == 6
MAX_PRIORITY == 63
Q14 == 16384
\* u64::MAX, the fire tick of a disabled timeout; TLC's integers end at
\* 2^31 - 1, which is far above every tick of the model
U64_MAX == 2147483647
Millis == 1

Tasks == 1..NTasks
None == 0
NiceValues == {0}
Results == {7}
NFTasks == 2
NFPages == 2
NFFrames == 2
NLPages == 1
MaxRefs == 3
FTasks == 1..NFTasks
FPages == 1..NFPages
FFrames == 1..NFFrames
LPages == 1..NLPages
Bytes == {0, 1}
\* heap addresses are counted in units of 1 KiB, so a page is 4 units
PageSize == 4
PagesPerTable == 4
HeapBase == 16
HeapInitSize == 8
NHFrames == 9
MaxAllocs == 3
MaxOther == 2
HFrames == 1..NHFrames
MaxSizes == {16, 40}
ReservedLayout == [size |-> PageSize, align |-> PageSize]
Layouts == {[size |-> 1, align |-> 1], [size |-> 8, align |-> 4], [size |-> 16, align |-> 4]}
\* niceness is -20..=20; cpu_time samples sit at and next to the values at
\* which cpu_time / 4 crosses a multiple of 2^14
MaxNiceness == 20
Nicenesses == (-MaxNiceness)..MaxNiceness
CpuTimeSteps == {-30, -1, 0, 1, 20, 63, 64, 110}
CpuTimes == {4 * Q14 * k + d : k \in CpuTimeSteps, d \in {-1, 0, 3}}
\* kernel-half synchronisation: the directory slots LINKED_BASE >> 22 .. 1024
\* are two slots, each null (0) or pointing to a page table (1)
NSTasks == 2
MaxUpdates == 3
STasks == 1..NSTasks
KSlots == {1, 2}
KTables == {0, 1}
\* foreign-memory access: addresses are counted in half pages, so a page is
\* 2 units, and 8 stands for 2^32, the first address that is no u32
MPageSize == 2
MAddrLimit == 8
MaxLen == 4
NMFrames == 3
NKPages == 3
\* the minute of the scheduling scenario, in seconds
SimSeconds == 60
\* fixed-point arithmetic: operations per run, ready tasks, and the ticks
\* between the end of a slice and the next pick (131066 ticks of idling)
MaxSteps == 3
MaxReady == 3
IdleGap == 131066
Gaps == {0, 1, IdleGap}
\* the hole-index heap: sizes in bytes; 0xdeadbeef is written as the i32 of
\* the same bits
KHEAP_INITIAL_SIZE == 1048576
KHEAP_MAX_SIZE == 268431360
HEAP_INDEX_SIZE == 131072
HEAP_MIN_SIZE == 458752
PAGE_SIZE == 4096
MAGIC_NUMBER == -559038737
SizeOfHeader == 12
SizeOfFooter == 8
SizeOfHeaderPtr == 4
MaxCalls == 3
\* ustar archives: entries per archive, and file sizes at and around whole
\* blocks
BLOCK_SIZE == 512
SizeOfTarHeader == 500
MaxEntries == 3
TarSizes == {0, 1, BLOCK_SIZE - 1, BLOCK_SIZE, BLOCK_SIZE + 1, 2 * BLOCK_SIZE}
MFrames == 1..NMFrames
KPages == 1..NKPages
TPages == 0..((MAddrLimit \div MPageSize) - 1)
NoSuchProcess == <<"err", "NoSuchProcess">>
NoValue == <<"ok", 0>>

VARIABLES
    \* ---- scheduler (kernel/src/sched.rs) ----
    created,            \* tasks that exist
    exec_mode,          \* Task::exec_mode
    registers,          \* Task::registers
    niceness,           \* Task::niceness
    cpu_time,           \* Task::cpu_time (Q17.14)
    pid,                \* Task::pid (None or the pid)
    process_table,      \* pids present in the process table
    run_queues,         \* Scheduler::run_queues
    current_task,       \* Scheduler::current_task
    ready_tasks,        \* Scheduler::ready_tasks; a value v < 0 stands for the
                        \* wrapped usize 2^32 + v
    force_context_switch, \* Scheduler::force_context_switch
    expires_at,         \* Scheduler::expires_at
    timeout_expires_at, \* Scheduler::timeout.expires_at
    jiffies,            \* Timer::jiffies
    cpu_regs,           \* the register frame the CPU returns to
    installed_dir,      \* the page directory installed in the MMU
    token,              \* BlockedState outstanding for a task
    must_requeue,       \* BlockedState::must_requeue of that token
    bu,                 \* position inside block_until
    started,            \* CPU::start_context_switching has run
    nblocks,            \* number of block_until calls so far
    nexits,             \* number of exits so far
    last,               \* the last operation performed and its outcome
    \* ---- copy-on-write fork (src/arch/i586/tasks.rs) ----
    f_alive,            \* tasks that exist
    f_dirs,             \* TaskState::pages, user half: page -> entry
    f_mem,              \* contents of the physical frames
    f_refs,             \* the page reference table: frame -> count
    f_free,             \* frames the frame allocator has free
    f_last,             \* the last fork-side operation
    l_kernel_dir,       \* the loader's kernel_dir: page -> entry
    \* ---- kernel heap (kernel/src/mm/heap.rs) ----
    h_top,              \* heap.top()
    h_blocks,           \* blocks the inner heap has handed out to callers
    h_rblocks,          \* blocks the inner heap has handed out as reserves
    h_reserved,         \* HeapAllocator::reserved_memory: 0 is None, -1 the
                        \* reserve made in new(), else the block's address
    h_max_size,         \* HeapAllocator::max_size
    h_mapped,           \* kernel page directory: heap page -> frame, 0 unmapped
    h_tables,           \* page tables present in the kernel page directory
    h_free,             \* frames the page manager has free
    h_other,            \* frames held by the rest of the kernel
    h_nallocs,          \* number of alloc calls so far
    h_last,             \* the last heap operation and its outcome
    h_alloc_state,      \* AllocState of the global allocator: "None" or "Heap"
    \* ---- push_task's priority computation on its own ----
    p_niceness,         \* Task::niceness of the task handed to push_task
    p_cpu_time,         \* Task::cpu_time of that task
    p_priority,         \* the queue index push_task computed, -1 before any call
    p_prev,             \* cpu_time and queue index of the call before
    \* ---- kernel-half synchronisation (src/arch/i586/tasks.rs) ----
    s_tasks,            \* tasks in the task list
    s_pages,            \* TaskState::pages, kernel half: slot -> page table
    s_task_updates,     \* TaskState::page_updates, the generation observed
    s_page_dir,         \* PAGE_DIR, kernel half: slot -> page table
    s_dir_updates,      \* PAGE_DIR.page_updates, the kernel's generation
    s_current,          \* the task whose directory is installed, or None
    s_last,             \* the last operation on the directories
    \* ---- foreign-memory access (src/arch/i586/tasks.rs) ----
    m_pages,            \* TaskState::pages: task page -> frame, 0 unmapped
    m_page_dir,         \* PAGE_DIR: kernel heap page -> frame
    m_leaked,           \* kernel heap pages allocated and never deallocated
    m_free,             \* frames the frame allocator has free
    m_last,             \* the last foreign-memory operation and its outcome
    \* ---- subsystems whose state is one record each ----
    sim,                \* the scheduler under three always-running tasks (kernel/src/sched.rs)
    fix,                \* the fixed-point values of one task and its scheduler (kernel/src/sched.rs)
    kheap,              \* the hole-index heap (src/mm/heap.rs)
    tar,                \* the ustar iterator and its archive (kernel/src/fs/tar.rs)
    ldr,                \* the loader's segment loop (loader/src/main.rs)
    fhole,              \* find_hole over a task's directory (src/arch/i586/tasks.rs)
    bump                \* the bump allocator (kernel/src/mm/bump_alloc.rs)

schedVars == <<created, exec_mode, registers, niceness, cpu_time, pid,
               process_table, run_queues, current_task, ready_tasks,
               force_context_switch, expires_at, timeout_expires_at, jiffies,
               cpu_regs, installed_dir, token, must_requeue, bu, started,
               nblocks, nexits, last>>

forkVars == <<f_alive, f_dirs, f_mem, f_refs, f_free, f_last, l_kernel_dir>>

heapVars == <<h_top, h_blocks, h_rblocks, h_reserved, h_max_size, h_mapped,
              h_tables, h_free, h_other, h_nallocs, h_last, h_alloc_state>>

prioVars == <<p_niceness, p_cpu_time, p_priority, p_prev>>

syncVars == <<s_tasks, s_pages, s_task_updates, s_page_dir, s_dir_updates,
              s_current, s_last>>

mapVars == <<m_pages, m_page_dir, m_leaked, m_free, m_last>>

simVars == <<sim>>

\* Scheduler::run_queues
x_run_queues == sim.run_queues

\* Scheduler::ready_tasks
x_ready_tasks == sim.ready_tasks

\* Task::cpu_time of each task
x_cpu_time == sim.cpu_time

\* Scheduler::current_task
x_current_task == sim.current_task

\* Scheduler::expires_at
x_expires_at == sim.expires_at

\* the fire tick of the scheduler's timeout
x_timeout == sim.timeout

\* the timer's tick count
x_jiffies == sim.jiffies

\* Scheduler::load_avg
x_load_avg == sim.load_avg

\* ticks each task has spent as the current task
x_run_time == sim.run_time

\* how often each task was picked
x_picks == sim.picks

\* the last step of the simulation
x_last == sim.last

fixVars == <<fix>>

\* Task::cpu_time, an i64, as whole part and 14-bit fraction
q_cpu_time == fix.cpu_time

\* Scheduler::expires_at
q_expires_at == fix.expires_at

\* Scheduler::load_avg
q_load_avg == fix.load_avg

\* operations done so far
q_steps == fix.steps

\* the last operation
q_last == fix.last

holeVars == <<kheap>>

\* Heap::index, the header pointers in the order of the array
kh_index == kheap.index

\* the words of memory the heap has written, by address relative to KHEAP_START
kh_mem == kheap.mem

\* Heap::end_address
kh_end_address == kheap.end_address

\* the pointer each call of alloc returned, 0 once freed
kh_live == kheap.live

\* calls made so far
kh_steps == kheap.steps

\* the last call
kh_last == kheap.last

tarVars == <<tar>>

\* the file sizes of the archive's entries, in order
tar_archive == tar.archive

\* a TarIterator exists
tar_iterating == tar.iterating

\* TarIterator::offset
tar_offset == tar.offset

\* the entries next has returned
tar_yielded == tar.yielded

\* next has returned None
tar_done == tar.done

\* the last call
tar_last == tar.last

ldrVars == <<ldr>>

fholeVars == <<fhole>>

bumpVars == <<bump>>

vars == <<schedVars, forkVars, heapVars, prioVars, syncVars, mapVars, simVars, fixVars, holeVars, tarVars, ldrVars, fholeVars, bumpVars>>

\* what the operations of one subsystem leave alone
notSchedVars == <<forkVars, heapVars, prioVars, syncVars, mapVars, simVars, fixVars, holeVars, tarVars, ldrVars, fholeVars, bumpVars>>
notForkVars == <<schedVars, heapVars, prioVars, syncVars, mapVars, simVars, fixVars, holeVars, tarVars, ldrVars, fholeVars, bumpVars>>
notHeapVars == <<schedVars, forkVars, prioVars, syncVars, mapVars, simVars, fixVars, holeVars, tarVars, ldrVars, fholeVars, bumpVars>>
notPrioVars == <<schedVars, forkVars, heapVars, syncVars, mapVars, simVars, fixVars, holeVars, tarVars, ldrVars, fholeVars, bumpVars>>
notSyncVars == <<schedVars, forkVars, heapVars, prioVars, mapVars, simVars, fixVars, holeVars, tarVars, ldrVars, fholeVars, bumpVars>>
notMapVars == <<schedVars, forkVars, heapVars, prioVars, syncVars, simVars, fixVars, holeVars, tarVars, ldrVars, fholeVars, bumpVars>>
notSimVars == <<schedVars, forkVars, heapVars, prioVars, syncVars, mapVars, fixVars, holeVars, tarVars, ldrVars, fholeVars, bumpVars>>
notFixVars == <<schedVars, forkVars, heapVars, prioVars, syncVars, mapVars, simVars, holeVars, tarVars, ldrVars, fholeVars, bumpVars>>
notHoleVars == <<schedVars, forkVars, heapVars, prioVars, syncVars, mapVars, simVars, fixVars, tarVars, ldrVars, fholeVars, bumpVars>>
notTarVars == <<schedVars, forkVars, heapVars, prioVars, syncVars, mapVars, simVars, fixVars, holeVars, ldrVars, fholeVars, bumpVars>>
notLdrVars == <<schedVars, forkVars, heapVars, prioVars, syncVars, mapVars, simVars, fixVars, holeVars, tarVars, fholeVars, bumpVars>>
notFholeVars == <<schedVars, forkVars, heapVars, prioVars, syncVars, mapVars, simVars, fixVars, holeVars, tarVars, ldrVars, bumpVars>>
notBumpVars == <<schedVars, forkVars, heapVars, prioVars, syncVars, mapVars, simVars, fixVars, holeVars, tarVars, ldrVars, fholeVars>>

(***************************************************************************)
(* Integer helpers: Rust's / truncates toward zero, >> on i64 floors.      *)
(***************************************************************************)
TruncDiv(a, b) == IF a >= 0 THEN a \div b ELSE -((-a) \div b)

Shr14(a) == a \div Q14

Max(a, b) == IF a >= b THEN a ELSE b

Min(a, b) == IF a <= b THEN a ELSE b

(***************************************************************************)
(* Register frames.  ip is where the frame resumes: user code, kernel code *)
(* or the idle loop wait_around; ctx names the task the frame belongs to;  *)
(* ax is the syscall return register.                                      *)
(***************************************************************************)
TaskInitRegs(t) == [ip |-> "user", ctx |-> t, ax |-> NoValue]

WaitRegs == [ip |-> "wait", ctx |-> None, ax |-> NoValue]

KernelFrame(t) == [ip |-> "kernel", ctx |-> t, ax |-> NoValue]

SyscallReturn(regs, result) == [regs EXCEPT !.ax = result]

\* PROPERTIES.kernel_region holds the kernel's code, wait_around included.
KernelRegionContains(ip) == ip \in {"kernel", "wait"}

IsRunningTask(regs) == ~KernelRegionContains(regs.ip)

(***************************************************************************)
(* Scheduler::push_task                                                    *)
(***************************************************************************)
PriorityNiceSubtracted(ct, nice) ==
    LET raw_prio == MAX_PRIORITY - Shr14(TruncDiv(ct, 4) - nice * 2 * Q14)
    IN  Min(Max(raw_prio, 0), MAX_PRIORITY)

PriorityRising(ct, nice) ==
    LET raw_prio == Shr14(TruncDiv(ct, 4) + nice * 2 * Q14)
    IN  Min(Max(raw_prio, 0), MAX_PRIORITY)

Priority(ct, nice) ==
    LET raw_prio == MAX_PRIORITY - Shr14(TruncDiv(ct, 4) + nice * 2 * Q14)
    IN  Min(Max(raw_prio, 0), MAX_PRIORITY)

PushTaskFront(s, t, nice) ==
    LET priority == Priority(s.cpu_time[t], nice)
    IN  [s EXCEPT !.run_queues[priority] = <<t>> \o @,
                  !.ready_tasks = @ + 1]

PushTaskUncounted(s, t, nice) ==
    LET priority == Priority(s.cpu_time[t], nice)
    IN  [s EXCEPT !.run_queues[priority] = Append(@, t)]

PushTaskNice(s, t, nice) ==
    LET priority == Priority(s.cpu_time[t], nice)
    IN  [s EXCEPT !.run_queues[priority] = Append(@, t),
                  !.ready_tasks = @ + 1]

PushTask(s, t) == PushTaskNice(s, t, niceness[t])

(***************************************************************************)
(* Scheduler::pop_task: one pop per queue, from MAX_PRIORITY down to 0.    *)
(***************************************************************************)
RECURSIVE PopTaskFrom(_, _, _, _)
PopTaskFrom(i, q, rt, em) ==
    IF i < 0 THEN [task |-> None, run_queues |-> q, ready_tasks |-> rt, from |-> -1]
    \* eight empty queues in a row are passed over in one step
    ELSE IF i >= 7 /\ \A k \in (i - 7)..i : q[k] = <<>> THEN PopTaskFrom(i - 8, q, rt, em)
    ELSE IF q[i] = <<>> THEN PopTaskFrom(i - 1, q, rt, em)
    ELSE LET task == Head(q[i])
             q2 == [q EXCEPT ![i] = Tail(@)]
             rt2 == rt - 1
         IN  IF em[task] # "Running"
             THEN PopTaskFrom(i - 1, q2, rt2, em)
             ELSE [task |-> task, run_queues |-> q2, ready_tasks |-> rt2, from |-> i]

PopTask(q, rt, em) == PopTaskFrom(MAX_PRIORITY, q, rt, em)

(***************************************************************************)
(* The scheduler state a context switch reads and writes, as one record.   *)
(***************************************************************************)
SchedState ==
    [run_queues |-> run_queues, ready_tasks |-> ready_tasks,
     current_task |-> current_task, registers |-> registers,
     cpu_time |-> cpu_time, exec_mode |-> exec_mode,
     force_context_switch |-> force_context_switch,
     expires_at |-> expires_at, cpu_regs |-> cpu_regs,
     installed_dir |-> installed_dir,
     ret |-> None, switched |-> FALSE, picked |-> None, from |-> -1]

\* the closure time_used of context_switch_timeout
TimeUsed(exp, j) ==
    TIME_SLICE * Q14 + TruncDiv((j - exp) * Q14, Millis)

SaveCurrentAlwaysRequeues(s, regs) ==
    IF s.current_task = None THEN s
    ELSE LET task == s.current_task
             s1 == [s EXCEPT !.registers[task] = regs, !.current_task = None]
         IN  PushTask(s1, task)

\* save state of current task and re-queue it if necessary
SaveCurrent(s, regs) ==
    IF s.current_task = None THEN s
    ELSE LET task == s.current_task
             s1 == [s EXCEPT !.registers[task] = regs, !.current_task = None]
         IN  IF s.exec_mode[task] = "Running" THEN PushTask(s1, task) ELSE s1

\* load state of new task from the queue, or just wait around
LoadNext(s, j) ==
    LET p == PopTask(s.run_queues, s.ready_tasks, s.exec_mode)
        s1 == [s EXCEPT !.run_queues = p.run_queues, !.ready_tasks = p.ready_tasks,
                        !.switched = TRUE, !.picked = p.task, !.from = p.from]
    IN  IF p.task # None
        THEN [s1 EXCEPT !.cpu_regs = s.registers[p.task],
                        !.cpu_time[p.task] = @ + TimeUsed(s.expires_at, j),
                        !.installed_dir = p.task,
                        !.current_task = p.task,
                        !.expires_at = j + TIME_SLICE,
                        !.ret = j + TIME_SLICE]
        ELSE [s1 EXCEPT !.cpu_regs = WaitRegs,
                        !.installed_dir = None,
                        !.ret = U64_MAX]

DeferForASlice(s, regs, j) ==
    IF ~IsRunningTask(regs) /\ ~s.force_context_switch
    THEN [s EXCEPT !.ret = j + TIME_SLICE]
    ELSE LoadNext(SaveCurrent([s EXCEPT !.force_context_switch = FALSE], regs), j)

SwitchRegardless(s, regs, j) ==
    LoadNext(SaveCurrent([s EXCEPT !.force_context_switch = FALSE], regs), j)

\* Scheduler::context_switch_timeout(registers, jiffies); ret is the fire
\* tick it returns, U64_MAX standing for None
ContextSwitchTimeout(s, regs, j) ==
    IF ~IsRunningTask(regs) /\ ~s.force_context_switch
    THEN [s EXCEPT !.ret = 0]
    ELSE LoadNext(SaveCurrent([s EXCEPT !.force_context_switch = FALSE], regs), j)

\* Scheduler::context_switch(registers), the manual switch: first the load of
\* the timeout's fire tick ...
LoadTimeout(texp) == IF texp = U64_MAX THEN 0 ELSE texp

\* ... then the switch and the compare_exchange of the fire tick seen at the
\* load against the new one
ManualContextSwitch(s, regs, j, seen, texp) ==
    LET r == ContextSwitchTimeout(s, regs, j)
    IN  [sched |-> r, timeout_expires_at |-> IF texp = seen THEN r.ret ELSE texp]

(***************************************************************************)
(* Writing a scheduler state record back into the variables.               *)
(***************************************************************************)
Commit(s) ==
    /\ run_queues' = s.run_queues
    /\ ready_tasks' = s.ready_tasks
    /\ current_task' = s.current_task
    /\ registers' = s.registers
    /\ cpu_time' = s.cpu_time
    /\ exec_mode' = s.exec_mode
    /\ force_context_switch' = s.force_context_switch
    /\ expires_at' = s.expires_at
    /\ cpu_regs' = s.cpu_regs
    /\ installed_dir' = s.installed_dir

NoOp == [op |-> "none", task |-> None, switched |-> FALSE, picked |-> None,
         from |-> -1, sync |-> FALSE, result |-> NoValue, fired |-> FALSE,
         requeued |-> 0, retick |-> FALSE, is_syscall |-> FALSE]

Occurrences(q, t) ==
    LET RECURSIVE Count(_)
        Count(i) == IF i > MAX_PRIORITY THEN 0
                    ELSE Cardinality({k \in 1..Len(q[i]) : q[i][k] = t}) + Count(i + 1)
    IN  Count(0)

Queued(t) == Occurrences(run_queues, t) > 0

\* no block_until is under way
BuNone == [pc |-> "none", sync |-> FALSE, result |-> NoValue, occ0 |-> 0, seen |-> 0]

(***************************************************************************)
(* Initial state: Scheduler::new, before any task exists.                  *)
(***************************************************************************)
SchedInit ==
    /\ created = {}
    /\ exec_mode = [t \in Tasks |-> "Exited"]
    /\ registers = [t \in Tasks |-> TaskInitRegs(t)]
    /\ niceness = [t \in Tasks |-> 0]
    /\ cpu_time = [t \in Tasks |-> 0]
    /\ pid = [t \in Tasks |-> None]
    /\ process_table = {}
    /\ run_queues = [i \in 0..MAX_PRIORITY |-> <<>>]
    /\ current_task = None
    /\ ready_tasks = 0
    /\ force_context_switch = FALSE
    /\ expires_at = 0
    /\ timeout_expires_at = U64_MAX
    /\ jiffies = 0
    /\ cpu_regs = WaitRegs
    /\ installed_dir = None
    /\ token = [t \in Tasks |-> FALSE]
    /\ must_requeue = [t \in Tasks |-> FALSE]
    /\ bu = BuNone
    /\ started = FALSE
    /\ nblocks = 0
    /\ nexits = 0
    /\ last = NoOp

(***************************************************************************)
(* Task creation: the process code builds a Running task and hands it to   *)
(* push_task.                                                              *)
(***************************************************************************)
Spawn(t, nice, has_pid) ==
    /\ UNCHANGED notSchedVars
    /\ t \notin created
    /\ \A u \in 1..(t - 1) : u \in created
    /\ bu.pc = "none"
    /\ created' = created \cup {t}
    /\ niceness' = [niceness EXCEPT ![t] = nice]
    /\ pid' = [pid EXCEPT ![t] = IF has_pid THEN t ELSE None]
    /\ process_table' = IF has_pid THEN process_table \cup {t} ELSE process_table
    /\ Commit(PushTaskNice([SchedState EXCEPT !.exec_mode[t] = "Running"], t, nice))
    /\ last' = [NoOp EXCEPT !.op = "spawn", !.task = t]
    /\ UNCHANGED <<timeout_expires_at, jiffies, token, must_requeue, bu, started, nblocks, nexits>>

(***************************************************************************)
(* CPU::start_context_switching (kernel/src/cpu.rs)                        *)
(***************************************************************************)
StartContextSwitching ==
    /\ UNCHANGED notSchedVars
    /\ ~started
    /\ started' = TRUE
    /\ force_context_switch' = TRUE
    /\ timeout_expires_at' = 0
    /\ last' = [NoOp EXCEPT !.op = "start"]
    /\ UNCHANGED <<created, exec_mode, registers, niceness, cpu_time, pid,
                   process_table, run_queues, current_task, ready_tasks,
                   expires_at, jiffies, cpu_regs, installed_dir, token,
                   must_requeue, bu, nblocks, nexits>>

(***************************************************************************)
(* One timer tick: the timer advances and, when the scheduler's timeout is *)
(* due, runs context_switch_timeout on the interrupted frame and re-arms   *)
(* the timeout with the tick it returns.                                   *)
(***************************************************************************)
InterruptedFrame == IF bu.pc # "none" THEN KernelFrame(current_task) ELSE cpu_regs

TimerTick ==
    /\ jiffies < MaxJiffies
    /\ jiffies' = jiffies + 1
    /\ IF timeout_expires_at <= jiffies + 1
       THEN LET r == ContextSwitchTimeout(SchedState, InterruptedFrame, jiffies + 1)
            IN  /\ Commit(r)
                /\ timeout_expires_at' = r.ret
                /\ last' = [NoOp EXCEPT !.op = IF r.switched THEN "switch" ELSE "deferred",
                                        !.switched = r.switched,
                                        !.picked = r.picked, !.from = r.from,
                                        !.retick = (timeout_expires_at = 0
                                                    /\ ~force_context_switch)]
       ELSE /\ Commit(SchedState)
            /\ timeout_expires_at' = timeout_expires_at
            /\ last' = [NoOp EXCEPT !.op = "tick"]
    /\ UNCHANGED <<created, niceness, pid, process_table, token, must_requeue,
                   bu, started, nblocks, nexits>>
    /\ UNCHANGED notSchedVars

(***************************************************************************)
(* BlockedState::syscall_return (kind "syscall") and bare_return ("bare"). *)
(* The token is consumed either way.                                       *)
(***************************************************************************)
TokenRequeuesAlways(flag) == TRUE

TokenRequeuesNever(flag) == FALSE

TokenRequeues(flag) == flag

FireToken(s, t, kind, result, flag) ==
    IF s.exec_mode[t] = "Running" THEN s
    ELSE LET s1 == [s EXCEPT !.exec_mode[t] = "Running",
                             !.registers[t] = IF kind = "syscall"
                                              THEN SyscallReturn(@, result) ELSE @]
         IN  IF TokenRequeues(flag) THEN PushTask(s1, t) ELSE s1

TokenFire(t, kind, result) ==
    /\ UNCHANGED notSchedVars
    /\ token[t]
    /\ token' = [token EXCEPT ![t] = FALSE]
    /\ Commit(FireToken(SchedState, t, kind, result, must_requeue[t]))
    /\ last' = [NoOp EXCEPT !.op = "fire", !.task = t, !.result = result]
    /\ UNCHANGED <<created, niceness, pid, process_table, timeout_expires_at,
                   jiffies, must_requeue, bu, started, nblocks, nexits>>

(***************************************************************************)
(* block_until, in the stretches between which an interrupt can run: up to *)
(* the end of the setup callback, the store to must_requeue, the look at   *)
(* exec_mode with the load of the timeout's fire tick that opens           *)
(* context_switch, and the switch itself.                                  *)
(***************************************************************************)
NoProcessSilent(s, is_syscall) == s

\* the current task has no pid, or its pid is not in the process table
NoProcessReturn(s, is_syscall) ==
    [s EXCEPT !.cpu_regs = IF is_syscall THEN SyscallReturn(@, NoSuchProcess) ELSE @]

BlockUntilCall(is_syscall, how, result) ==
    /\ UNCHANGED notSchedVars
    /\ current_task # None
    /\ bu.pc = "none"
    /\ nblocks < MaxBlocks
    /\ nblocks' = nblocks + 1
    /\ LET t == current_task
       IN  IF pid[t] # None /\ pid[t] \in process_table
           THEN LET s1 == [SchedState EXCEPT !.exec_mode[t] = "Blocked",
                                             !.registers[t] = cpu_regs]
                    s2 == IF how = "sync_syscall"
                          THEN FireToken(s1, t, "syscall", result, FALSE)
                          ELSE IF how = "sync_bare"
                          THEN FireToken(s1, t, "bare", result, FALSE)
                          ELSE s1
                IN  /\ Commit(s2)
                    /\ token' = [token EXCEPT ![t] = (how = "async")]
                    /\ must_requeue' = [must_requeue EXCEPT ![t] = FALSE]
                    /\ bu' = [pc |-> "callback_done", sync |-> (how # "async"),
                              result |-> IF how = "sync_syscall" THEN result ELSE cpu_regs.ax,
                              occ0 |-> Occurrences(run_queues, t), seen |-> 0]
                    /\ last' = [NoOp EXCEPT !.op = "block", !.task = t]
           ELSE /\ Commit(NoProcessReturn(SchedState, is_syscall))
                /\ last' = [NoOp EXCEPT !.op = "block_noproc", !.task = t,
                                        !.is_syscall = is_syscall]
                /\ UNCHANGED <<token, must_requeue, bu>>
    /\ UNCHANGED <<created, niceness, pid, process_table, timeout_expires_at,
                   jiffies, started, nexits>>

BlockUntilStore ==
    /\ UNCHANGED notSchedVars
    /\ bu.pc = "callback_done"
    /\ must_requeue' = [must_requeue EXCEPT ![current_task] = TRUE]
    /\ bu' = [bu EXCEPT !.pc = "stored"]
    /\ last' = [NoOp EXCEPT !.op = "store", !.task = current_task]
    /\ UNCHANGED <<created, exec_mode, registers, niceness, cpu_time, pid,
                   process_table, run_queues, current_task, ready_tasks,
                   force_context_switch, expires_at, timeout_expires_at, jiffies,
                   cpu_regs, installed_dir, token, started, nblocks, nexits>>

BlockUntilFinish ==
    /\ UNCHANGED notSchedVars
    /\ bu.pc = "stored"
    /\ LET t == current_task
       IN  IF exec_mode[t] = "Running"
           THEN /\ Commit([SchedState EXCEPT !.cpu_regs = registers[t]])
                /\ bu' = BuNone
                /\ last' = [NoOp EXCEPT !.op = "block_return", !.task = t,
                                        !.sync = bu.sync, !.result = bu.result,
                                        !.fired = ~token[t],
                                        !.requeued = Occurrences(run_queues, t) - bu.occ0]
           ELSE /\ Commit(SchedState)
                /\ bu' = [bu EXCEPT !.pc = "loaded",
                                    !.seen = LoadTimeout(timeout_expires_at)]
                /\ last' = [NoOp EXCEPT !.op = "block_load", !.task = t]
    /\ UNCHANGED <<created, niceness, pid, process_table, timeout_expires_at, jiffies,
                   token, must_requeue, started, nblocks, nexits>>

BlockUntilSwitch ==
    /\ UNCHANGED notSchedVars
    /\ bu.pc = "loaded"
    /\ bu' = BuNone
    /\ LET t == current_task
           m == ManualContextSwitch(SchedState, cpu_regs, jiffies, bu.seen,
                                    timeout_expires_at)
       IN  /\ Commit(m.sched)
           /\ timeout_expires_at' = m.timeout_expires_at
           /\ last' = [NoOp EXCEPT !.op = "block_switch", !.task = t,
                                   !.sync = bu.sync, !.result = bu.result,
                                   !.fired = ~token[t],
                                   !.requeued = Occurrences(run_queues, t) - bu.occ0,
                                   !.switched = m.sched.switched,
                                   !.picked = m.sched.picked,
                                   !.from = m.sched.from]
    /\ UNCHANGED <<created, niceness, pid, process_table, jiffies, token,
                   must_requeue, started, nblocks, nexits>>

(***************************************************************************)
(* Exit: the task is marked Exited and leaves the process table.           *)
(***************************************************************************)
ExitTask(t) ==
    /\ UNCHANGED notSchedVars
    /\ t \in created
    /\ exec_mode[t] # "Exited"
    /\ bu.pc = "none"
    /\ nexits < MaxExits
    /\ nexits' = nexits + 1
    /\ exec_mode' = [exec_mode EXCEPT ![t] = "Exited"]
    /\ process_table' = process_table \ {pid[t]}
    /\ last' = [NoOp EXCEPT !.op = "exit", !.task = t]
    /\ UNCHANGED <<created, registers, niceness, cpu_time, pid, run_queues,
                   current_task, ready_tasks, force_context_switch, expires_at,
                   timeout_expires_at, jiffies, cpu_regs, installed_dir, token,
                   must_requeue, bu, started, nblocks>>

SchedNext ==
    \/ \E t \in Tasks, n \in NiceValues, hp \in BOOLEAN : Spawn(t, n, hp)
    \/ StartContextSwitching
    \/ TimerTick
    \/ \E t \in Tasks, k \in {"syscall", "bare"}, r \in Results : TokenFire(t, k, <<"ok", r>>)
    \/ \E sc \in BOOLEAN, how \in {"sync_syscall", "sync_bare", "async"}, r \in Results :
          BlockUntilCall(sc, how, <<"ok", r>>)
    \/ BlockUntilStore
    \/ BlockUntilFinish
    \/ BlockUntilSwitch
    \/ \E t \in Tasks : ExitTask(t)

(***************************************************************************)
(* Claims about the scheduler.                                             *)
(***************************************************************************)
QueuedRunningAbove(i) ==
    \E j \in (i + 1)..MAX_PRIORITY : \E k \in 1..Len(run_queues[j]) :
        exec_mode[run_queues[j][k]] = "Running"

\* C1: after a performed context switch, the picked task is Running and no
\* Running task is left in a queue of higher index than the one it came
\* from; nothing is picked only when no queued task is Running.
C1_PopTaskPicksHighestRunning ==
    last.switched =>
        /\ last.picked # None =>
              /\ exec_mode[last.picked] = "Running"
              /\ ~QueuedRunningAbove(last.from)
        /\ last.picked = None => ~QueuedRunningAbove(-1)

\* C2: when the token is consumed inside the setup callback, block_until
\* returns with the task Running and still current, the task was not pushed
\* during the call, no context switch was performed, and the caller's
\* registers are the task's own with the operation's result in ax.
C2_SyncCompletionReturns ==
    (last.op \in {"block_return", "block_switch"} /\ last.sync) =>
        /\ last.op = "block_return"
        /\ exec_mode[last.task] = "Running"
        /\ last.requeued = 0
        /\ ~last.switched
        /\ current_task = last.task
        /\ cpu_regs.ctx = last.task
        /\ cpu_regs.ax = last.result

C2_Witness ==
    /\ last.op = "block_return"
    /\ last.sync
    /\ cpu_regs.ax = <<"ok", 7>>

C4_TokenForExitedIsNoOp ==
    [][ \A t \in Tasks :
          (/\ token[t] /\ ~token'[t] /\ bu' = bu
           /\ (exec_mode[t] = "Exited" \/ pid[t] \notin process_table)) =>
              /\ exec_mode'[t] = exec_mode[t]
              /\ registers'[t] = registers[t]
              /\ run_queues' = run_queues ]_vars

\* a step in which the timer runs the scheduler's context-switch callback
CallbackRuns == jiffies' = jiffies + 1 /\ timeout_expires_at <= jiffies + 1

SomeQueuedRunning == \E t \in Tasks : Queued(t) /\ exec_mode[t] = "Running"

\* C11: when the callback runs on a frame whose instruction pointer is in the
\* kernel region and force_context_switch is false, the current-task slot,
\* the run queues, ready_tasks, the caller's registers, the tasks' saved
\* registers and cpu_time and the installed page directory stay as they are.
C11_DeferredChangesNothing ==
    [][ (CallbackRuns /\ InterruptedFrame.ip \in {"kernel", "wait"} /\ ~force_context_switch) =>
            /\ last'.op = "deferred"
            /\ UNCHANGED <<current_task, run_queues, ready_tasks, cpu_regs, registers,
                           cpu_time, installed_dir, exec_mode>> ]_vars

\* a deferred tick with a current task and a Running task waiting in a queue
C11_Witness ==
    /\ last.op = "deferred"
    /\ current_task # None
    /\ SomeQueuedRunning

HasRunning(q, i) == \E k \in 1..Len(q[i]) : exec_mode[q[i][k]] = "Running"

\* C13: with force_context_switch set, the callback performs the switch
\* whatever the instruction pointer is, the flag is false afterwards, and the
\* task that is picked comes from a queue at least as high as every queue
\* that held a Running task, so that a Running task pushed into the highest
\* such queue while the flag was set is not passed over for a lower one or
\* for the idle loop.
C13_ForcedSwitchPicksHighest ==
    [][ (CallbackRuns /\ force_context_switch) =>
            /\ last'.switched
            /\ ~force_context_switch'
            /\ \A i \in 0..MAX_PRIORITY :
                  HasRunning(run_queues, i) => (last'.picked # None /\ last'.from >= i) ]_vars

\* the CPU was put into the idle loop by a context switch
IdleAfterSwitch == started /\ ~force_context_switch /\ current_task = None

\* a Running task has just been pushed while the CPU idles
PushedWhileIdle ==
    /\ IdleAfterSwitch
    /\ last.op \in {"spawn", "fire"}
    /\ Queued(last.task)
    /\ exec_mode[last.task] = "Running"

\* C14: a context switch that finds no Running task leaves the CPU in the
\* wait loop with the kernel directory installed and no current task, and
\* once a Running task is queued in that state, the timer's ticks alone lead
\* to a state in which a task is current.
C14_IdleEndsAfterPush ==
    /\ []((last.switched /\ last.picked = None) =>
              (cpu_regs = WaitRegs /\ installed_dir = None /\ current_task = None))
    /\ ((PushedWhileIdle /\ jiffies < MaxJiffies) ~> (current_task # None))

\* a step that performed a context switch, by the timer or by block_until
SwitchStep == last'.switched /\ (jiffies' # jiffies \/ bu' # bu)

InQueue(q, t) == \E k \in 1..Len(q) : q[k] = t

\* C15: a task pushed into a queue stands behind every task that was in the
\* queue before it, and a context switch never picks a task out of a queue
\* in which another task that is Running stands before it; so of two Running
\* tasks of one queue the one pushed first is picked first.
C15_SameQueueInPushOrder ==
    [][ /\ \A i \in 0..MAX_PRIORITY :
              \/ run_queues'[i] = run_queues[i]
              \/ \A t, u \in Tasks :
                    (InQueue(run_queues[i], t) /\ ~InQueue(run_queues[i], u)) =>
                        \A k, l \in 1..Len(run_queues'[i]) :
                            (run_queues'[i][k] = t /\ run_queues'[i][l] = u) => k < l
        /\ (SwitchStep /\ last'.from \in 0..MAX_PRIORITY) =>
              \A a, b \in 1..Len(run_queues[last'.from]) :
                  (/\ a < b
                   /\ run_queues[last'.from][a] # run_queues[last'.from][b]
                   /\ exec_mode[run_queues[last'.from][a]] = "Running") =>
                      last'.picked # run_queues[last'.from][b] ]_vars

\* task 1, pushed first, was picked while task 2 waits Running in the queue
\* both were pushed into
C15_Witness ==
    /\ last.switched
    /\ last.picked = 1
    /\ current_task = 1
    /\ 2 \in created
    /\ exec_mode[2] = "Running"
    /\ \E k \in 1..Len(run_queues[last.from]) : run_queues[last.from][k] = 2

\* C25: at a context switch the task picked is charged the expected slice,
\* TIME_SLICE in Q17.14, the task switched out is corrected by the ticks it
\* ran beyond or short of its slice, and no other task's cpu_time changes.
C25_SliceChargedAndCorrectedPerTask ==
    [][ SwitchStep =>
          \A t \in Tasks :
              cpu_time'[t] = cpu_time[t]
                  + (IF t = last'.picked THEN TIME_SLICE * Q14 ELSE 0)
                  + (IF t = current_task THEN (jiffies' - expires_at) * Q14 ELSE 0) ]_vars

EntriesOf(q, t) == Cardinality({k \in 1..Len(q) : q[k] = t})

\* C18: a task enters a run queue only while its exec_mode is Running: every
\* step that adds an entry for a task to a run queue (the requeue of the
\* context switch, syscall_return, bare_return) leaves that task Running.
C18_PushedOnlyWhileRunning ==
    [][ \A i \in 0..MAX_PRIORITY :
          \/ run_queues'[i] = run_queues[i]
          \/ \A t \in Tasks :
                EntriesOf(run_queues'[i], t) > EntriesOf(run_queues[i], t) =>
                    exec_mode'[t] = "Running" ]_vars

\* task 1 has run, no block_until was ever called, and a switch has just put
\* task 1 back in a queue while loading task 2
C18_Witness ==
    /\ nblocks = 0
    /\ last.op = "switch"
    /\ last.picked = 2
    /\ current_task = 2
    /\ cpu_time[1] > 0
    /\ Queued(1)
    /\ exec_mode[1] = "Running"

\* the frame the step hands to context_switch_timeout: the interrupted frame
\* at a tick, the syscall frame in block_until
CallerFrame == IF jiffies' # jiffies THEN InterruptedFrame ELSE cpu_regs

\* C32: at every performed context switch the caller's registers are saved
\* into the outgoing task; an outgoing Running task gains one queue entry (or
\* is the task picked again), an outgoing Blocked or Exited task is in no run
\* queue afterwards; the current-task slot holds the picked task or nothing.
C32_OutgoingSavedAndRequeuedIffRunning ==
    [][ SwitchStep =>
          /\ current_task' = last'.picked
          /\ current_task # None =>
                /\ registers'[current_task] = CallerFrame
                /\ exec_mode[current_task] = "Running" =>
                      Occurrences(run_queues', current_task)
                          + (IF current_task' = current_task THEN 1 ELSE 0)
                      = Occurrences(run_queues, current_task) + 1
                /\ exec_mode[current_task] # "Running" =>
                      Occurrences(run_queues', current_task) = 0 ]_vars

\* the CPU sits in wait_around on the idle stack after a switch that found no
\* task, force_context_switch is false and a Running task is queued
IdleWithWork ==
    /\ started
    /\ ~force_context_switch
    /\ current_task = None
    /\ cpu_regs = WaitRegs
    /\ bu.pc = "none"
    /\ QueuedRunningAbove(-1)

\* C33: a tick that arrives while the CPU idles in wait_around, with
\* force_context_switch false and a Running task queued, is not deferred: it
\* performs the switch and picks a task.
C33_IdleTickPicksQueuedTask ==
    [][ (IdleWithWork /\ jiffies' # jiffies) =>
            (last'.switched /\ last'.picked # None) ]_vars

\* C34: a context switch that selects a task at tick j, by the timer callback
\* or by the manual context_switch, leaves the scheduler's timeout armed for
\* tick j + TIME_SLICE.
C34_PickArmsTimeoutForOneSlice ==
    [][ (SwitchStep /\ last'.picked # None) =>
            timeout_expires_at' = jiffies' + TIME_SLICE ]_vars

\* C37: whatever the order of token firings, block_until steps and context
\* switches, no task has more than one entry in the run queues, and the
\* current task has none.
C37_QueuedAtMostOnceAndNotCurrent ==
    \A t \in Tasks :
        /\ Occurrences(run_queues, t) <= 1
        /\ current_task = t => Occurrences(run_queues, t) = 0

\* the number of task handles held in the run queues
QueuedHandles(q) ==
    LET RECURSIVE Count(_)
        Count(i) == IF i > MAX_PRIORITY THEN 0 ELSE Len(q[i]) + Count(i + 1)
    IN  Count(0)

\* C38: ready_tasks is the number of task handles held in the 64 run queues,
\* and it never goes below zero.
C38_ReadyTasksCountsQueuedHandles ==
    /\ ready_tasks = QueuedHandles(run_queues)
    /\ ready_tasks >= 0

\* a switch has popped and discarded a task that was not Running, picked
\* nothing, and another task is still queued
C38_Witness ==
    /\ last.switched
    /\ last.picked = None
    /\ ready_tasks = 1
    /\ \E t \in Tasks : exec_mode[t] # "Running" /\ t \in created /\ ~Queued(t)
                         /\ cpu_time[t] = 0

\* C39: block_until called for a current task without a pid, or whose pid is
\* not in the process table, leaves exec_mode, the saved registers, the run
\* queues, the current task, the tokens and the timeout as they are and
\* performs no switch; the caller's registers get NoSuchProcess as the
\* syscall result when is_syscall is true and stay as they are otherwise.
C39_NoProcessChangesNothing ==
    [][ (/\ nblocks' = nblocks + 1
         /\ (pid[current_task] = None \/ pid[current_task] \notin process_table)) =>
            /\ UNCHANGED <<exec_mode, registers, run_queues, ready_tasks, current_task,
                           cpu_time, installed_dir, token, must_requeue, bu,
                           timeout_expires_at, force_context_switch>>
            /\ ~last'.switched
            /\ cpu_regs' = IF last'.is_syscall
                           THEN SyscallReturn(cpu_regs, NoSuchProcess)
                           ELSE cpu_regs ]_vars

\* a task created without a pid called block_until from a syscall and got
\* NoSuchProcess
C39_Witness ==
    /\ last.op = "block_noproc"
    /\ last.is_syscall
    /\ pid[last.task] = None
    /\ exec_mode[last.task] = "Running"
    /\ current_task = last.task
    /\ cpu_regs.ax = NoSuchProcess

(***************************************************************************)
(* Copy-on-write fork (src/arch/i586/tasks.rs).  A page entry holds the    *)
(* frame address and the flags ReadWrite (rw) and CopyOnWrite (cow); an    *)
(* unused entry has used = FALSE.  Only the user half (below LINKED_BASE)  *)
(* is modelled; a null page table is a table all of whose entries are      *)
(* unused.                                                                 *)
(***************************************************************************)
UnusedEntry == [used |-> FALSE, addr |-> 0, rw |-> FALSE, cow |-> FALSE]

EmptyDir == [v \in FPages |-> UnusedEntry]

\* add_page_reference: the frame gains a holder; a frame not yet in the
\* table was held by one directory
AddPageReference(refs, frame) ==
    [refs EXCEPT ![frame] = IF @ = 0 THEN 2 ELSE @ + 1]

CowFlagsKeepWritable(orig) ==
    IF orig.rw THEN [orig EXCEPT !.cow = TRUE] ELSE orig

\* the flags copy_on_write_from gives the copied entry
CowFlags(orig) ==
    IF orig.rw THEN [orig EXCEPT !.rw = FALSE, !.cow = TRUE] ELSE orig

\* TaskState::copy_on_write_from(dir, 0, LINKED_BASE >> 22, owner) on a fresh
\* directory: the copy gets every used entry of dir; dir itself is only read
CopyOnWriteFrom(dir) ==
    [v \in FPages |-> IF dir[v].used THEN CowFlags(dir[v]) ELSE UnusedEntry]

RECURSIVE AddReferences(_, _, _)
AddReferences(refs, dir, v) ==
    IF v > NFPages THEN refs
    ELSE AddReferences(IF dir[v].used THEN AddPageReference(refs, dir[v].addr) ELSE refs,
                       dir, v + 1)

FNoOp == [op |-> "none", task |-> 0, other |-> 0, page |-> 0, byte |-> 0]

ForkInit ==
    /\ f_alive = {1}
    /\ f_dirs = [t \in FTasks |-> EmptyDir]
    /\ f_mem = [f \in FFrames |-> 0]
    /\ f_refs = [f \in FFrames |-> 0]
    /\ f_free = FFrames
    /\ f_last = FNoOp
    /\ l_kernel_dir = [v \in LPages |-> UnusedEntry]

LowestFree == CHOOSE f \in f_free : \A g \in f_free : f <= g

\* TaskState::alloc_page: a frame is allocated for an unmapped user page
FAllocPage(t, v, is_writeable) ==
    /\ t \in f_alive
    /\ ~f_dirs[t][v].used
    /\ f_free # {}
    /\ f_dirs' = [f_dirs EXCEPT ![t][v] =
                     [used |-> TRUE, addr |-> LowestFree, rw |-> is_writeable, cow |-> FALSE]]
    /\ f_free' = f_free \ {LowestFree}
    /\ f_mem' = [f_mem EXCEPT ![LowestFree] = 0]
    /\ f_last' = [FNoOp EXCEPT !.op = "alloc", !.task = t, !.page = v]
    /\ UNCHANGED <<f_alive, f_refs, l_kernel_dir>>
    /\ UNCHANGED notForkVars

\* fork_task: the child's directory is the copy-on-write copy of the parent's
FFork(p, c) ==
    /\ p \in f_alive
    /\ c \notin f_alive
    /\ \A u \in 1..(c - 1) : u \in f_alive
    /\ \A v \in FPages : f_dirs[p][v].used => f_refs[f_dirs[p][v].addr] < MaxRefs
    /\ f_alive' = f_alive \cup {c}
    /\ f_dirs' = [f_dirs EXCEPT ![c] = CopyOnWriteFrom(f_dirs[p])]
    /\ f_refs' = AddReferences(f_refs, f_dirs[p], 1)
    /\ f_last' = [FNoOp EXCEPT !.op = "fork", !.task = p, !.other = c]
    /\ UNCHANGED <<f_mem, f_free, l_kernel_dir>>
    /\ UNCHANGED notForkVars

\* the write-fault handler for a present, non-writable, copy-on-write page
WriteFault(t, v) ==
    LET e == f_dirs[t][v]
    IN  IF f_refs[e.addr] <= 1
        THEN [dirs |-> [f_dirs EXCEPT ![t][v] = [e EXCEPT !.rw = TRUE, !.cow = FALSE]],
              mem |-> f_mem, refs |-> [f_refs EXCEPT ![e.addr] = 0], free |-> f_free]
        ELSE [dirs |-> [f_dirs EXCEPT ![t][v] =
                           [used |-> TRUE, addr |-> LowestFree, rw |-> TRUE, cow |-> FALSE]],
              mem |-> [f_mem EXCEPT ![LowestFree] = f_mem[e.addr]],
              refs |-> [f_refs EXCEPT ![e.addr] = IF @ = 2 THEN 0 ELSE @ - 1],
              free |-> f_free \ {LowestFree}]

\* a user-mode store of one byte: the MMU lets it through on a writable
\* page and traps into the write-fault handler on a copy-on-write page
FWrite(t, v, b) ==
    /\ t \in f_alive
    /\ f_dirs[t][v].used
    /\ f_dirs[t][v].rw \/ f_dirs[t][v].cow
    /\ f_dirs[t][v].rw \/ f_refs[f_dirs[t][v].addr] <= 1 \/ f_free # {}
    /\ LET w == IF f_dirs[t][v].rw
                THEN [dirs |-> f_dirs, mem |-> f_mem, refs |-> f_refs, free |-> f_free]
                ELSE WriteFault(t, v)
       IN  /\ f_dirs' = w.dirs
           /\ f_refs' = w.refs
           /\ f_free' = w.free
           /\ f_mem' = [w.mem EXCEPT ![w.dirs[t][v].addr] = b]
    /\ f_last' = [FNoOp EXCEPT !.op = "write", !.task = t, !.page = v, !.byte = b]
    /\ UNCHANGED <<f_alive, l_kernel_dir>>
    /\ UNCHANGED notForkVars

\* remove_page_reference: the frame loses a holder; when one holder would be
\* left the frame leaves the table
RemovePageReference(refs, frame) ==
    [refs EXCEPT ![frame] = IF @ <= 2 THEN 0 ELSE @ - 1]

\* the loop of TaskState::free_pages over the user pages from v on; a
\* copy-on-write entry gives up its reference and stays as it is, any other
\* entry is set unused and its frame is freed unless the reference table
\* holds it
RECURSIVE FreePages(_, _)
FreePages(st, v) ==
    IF v > NFPages THEN st
    ELSE LET e == st.dir[v]
         IN  IF ~e.used THEN FreePages(st, v + 1)
             ELSE IF e.cow
             THEN FreePages([st EXCEPT !.refs = RemovePageReference(@, e.addr)], v + 1)
             ELSE FreePages([st EXCEPT !.dir[v] = UnusedEntry,
                                       !.free = IF st.refs[e.addr] = 0
                                                THEN @ \cup {e.addr} ELSE @],
                            v + 1)

\* a task goes away: free_pages runs on its directory and the task leaves
\* the task list
FFreePages(t) ==
    /\ t \in f_alive
    /\ LET r == FreePages([dir |-> f_dirs[t], refs |-> f_refs, free |-> f_free], 1)
       IN  /\ f_dirs' = [f_dirs EXCEPT ![t] = r.dir]
           /\ f_refs' = r.refs
           /\ f_free' = r.free
    /\ f_alive' = f_alive \ {t}
    /\ f_last' = [FNoOp EXCEPT !.op = "free_pages", !.task = t]
    /\ UNCHANGED <<f_mem, l_kernel_dir>>
    /\ UNCHANGED notForkVars

(***************************************************************************)
(* The loader (loader/src/main.rs) fills the kernel's page directory       *)
(* before the kernel and its tasks exist.  The frame of loader page v is   *)
(* named v.                                                                *)
(***************************************************************************)
LoaderRunning == f_last.op \in {"none", "load", "set_page"}

\* one round of the segment loop: alloc_frame maps an unmapped page with the
\* segment's write permission; on FrameInUse a writable segment makes the
\* page already there writable
LoaderAllocFrame(v, is_write) ==
    /\ LoaderRunning
    /\ l_kernel_dir' =
          IF ~l_kernel_dir[v].used
          THEN [l_kernel_dir EXCEPT ![v] =
                   [used |-> TRUE, addr |-> v, rw |-> is_write, cow |-> FALSE]]
          ELSE IF is_write /\ ~l_kernel_dir[v].rw
               THEN [l_kernel_dir EXCEPT ![v].rw = TRUE]
               ELSE l_kernel_dir
    /\ f_last' = [FNoOp EXCEPT !.op = "load", !.page = v]
    /\ UNCHANGED <<f_alive, f_dirs, f_mem, f_refs, f_free>>
    /\ UNCHANGED notForkVars

\* set_page at a hole found by find_hole: the page table list, the physical
\* table list and the page tables are mapped writable
LoaderSetPage(v) ==
    /\ LoaderRunning
    /\ ~l_kernel_dir[v].used
    /\ l_kernel_dir' = [l_kernel_dir EXCEPT ![v] =
                           [used |-> TRUE, addr |-> v, rw |-> TRUE, cow |-> FALSE]]
    /\ f_last' = [FNoOp EXCEPT !.op = "set_page", !.page = v]
    /\ UNCHANGED <<f_alive, f_dirs, f_mem, f_refs, f_free>>
    /\ UNCHANGED notForkVars

ForkNext ==
    \/ \E t \in FTasks, v \in FPages, w \in BOOLEAN : FAllocPage(t, v, w)
    \/ \E p \in FTasks, c \in FTasks : FFork(p, c)
    \/ \E t \in FTasks, v \in FPages, b \in Bytes : FWrite(t, v, b)
    \/ \E v \in LPages, w \in BOOLEAN : LoaderAllocFrame(v, w)
    \/ \E v \in LPages : LoaderSetPage(v)

\* the fork-side operations together with tasks going away
FreeNext ==
    \/ ForkNext
    \/ \E t \in FTasks : FFreePages(t)

\* the byte a task reads at a mapped page
ReadByte(dirs, mem, t, v) == mem[dirs[t][v].addr]

\* C5: after fork of p into c, every used user page of p is mapped in c at
\* the same address to the same frame with rw clear and cow set, p's own
\* entry has rw clear and cow set as well, and the frame's reference count
\* has grown.
C5_ForkMarksBothCopyOnWrite ==
    [][ \A p \in FTasks, c \in FTasks :
          (p \in f_alive /\ c \notin f_alive /\ c \in f_alive'
           /\ f_last'.task = p) =>
              \A v \in FPages : f_dirs[p][v].used =>
                  /\ f_dirs'[c][v].used
                  /\ f_dirs'[c][v].addr = f_dirs[p][v].addr
                  /\ ~f_dirs'[c][v].rw /\ f_dirs'[c][v].cow
                  /\ ~f_dirs'[p][v].rw /\ f_dirs'[p][v].cow
                  /\ f_refs'[f_dirs[p][v].addr] > f_refs[f_dirs[p][v].addr] ]_vars

\* C6: right after fork parent and child read the same byte at every mapped
\* page, and a write of one task to a page never changes the byte another
\* task reads there.
C6_WritesStayPrivate ==
    [][ /\ \A p \in FTasks, c \in FTasks :
              (p \in f_alive /\ c \notin f_alive /\ c \in f_alive' /\ f_last'.task = p) =>
                  \A v \in FPages : f_dirs[p][v].used =>
                      ReadByte(f_dirs', f_mem', c, v) = ReadByte(f_dirs', f_mem', p, v)
        /\ \A t \in FTasks, o \in FTasks, v \in FPages :
              (/\ f_last'.op = "write" /\ f_last'.task = t /\ f_last'.page = v
               /\ f_alive' = f_alive /\ o \in f_alive /\ o # t /\ f_dirs[o][v].used) =>
                  ReadByte(f_dirs', f_mem', o, v) = ReadByte(f_dirs, f_mem, o, v) ]_vars

\* a task of the set alive has frame f mapped
MappedBy(dirs, alive, f) ==
    \E t \in alive, v \in FPages : dirs[t][v].used /\ dirs[t][v].addr = f

\* C23: free_pages gives up a reference for every present entry whose frame
\* is in the reference table and frees the frame of every other present
\* entry; no frame is free while a living task maps it, and once no living
\* task maps a frame that frame is free and out of the reference table.
C23_FreePagesReleasesFrames ==
    [][ /\ \A t \in FTasks, v \in FPages :
              (f_last'.op = "free_pages" /\ f_last'.task = t /\ t \in f_alive
               /\ f_dirs[t][v].used) =>
                  IF f_refs[f_dirs[t][v].addr] > 0
                  THEN f_refs'[f_dirs[t][v].addr] < f_refs[f_dirs[t][v].addr]
                  ELSE f_dirs[t][v].addr \in f_free'
        /\ \A f \in FFrames :
              /\ f \in f_free' => ~MappedBy(f_dirs', f_alive', f)
              /\ ~MappedBy(f_dirs', f_alive', f) => (f \in f_free' /\ f_refs'[f] = 0) ]_vars

\* C19: no page entry is both writable and copy-on-write, in the task
\* directories fork builds and in the kernel directory the loader fills.
C19_WritableNotCopyOnWrite ==
    /\ \A t \in FTasks, v \in FPages : f_dirs[t][v].rw => ~f_dirs[t][v].cow
    /\ \A v \in LPages : l_kernel_dir[v].rw => ~l_kernel_dir[v].cow

\* a fork has just turned a writable page of the parent into a copy-on-write
\* entry of the child, and the loader had made a page writable that was
\* already mapped
C19_Witness ==
    /\ f_last.op = "fork"
    /\ \E v \in FPages :
          /\ f_dirs[f_last.task][v].rw
          /\ f_dirs[f_last.other][v].cow
          /\ ~f_dirs[f_last.other][v].rw
    /\ \E v \in LPages : l_kernel_dir[v].rw

(***************************************************************************)
(* The kernel heap (kernel/src/mm/heap.rs): HeapAllocator over the inner   *)
(* first-fit heap, the kernel page directory and the page manager.         *)
(***************************************************************************)
\* fn align(unaligned, alignment) inside HeapAllocator::alloc
Align(unaligned, alignment) == (unaligned \div alignment) * alignment + alignment

PageOf(addr) == addr \div PageSize

TableOf(page) == page \div PagesPerTable

HeapLimit == HeapBase + HeapInitSize + (NHFrames + 1) * PageSize

Overlaps(a, size, b) == a < b.addr + b.size /\ b.addr < a + size

\* Heap::allocate_first_fit: the lowest aligned address of a free range of
\* the wanted size inside [bottom, top), 0 when there is none
FirstFit(blocks, top, layout) ==
    LET fits == {a \in HeapBase..(top - layout.size) :
                    /\ a % layout.align = 0
                    /\ \A b \in blocks : ~Overlaps(a, layout.size, b)}
    IN  IF fits = {} THEN 0 ELSE CHOOSE a \in fits : \A c \in fits : a <= c

\* the new top HeapAllocator::alloc computes for a failed allocation
NewTopLimit(new_top, max_size) == Max(new_top, max_size)

NewTop(current_top, layout, max_size) ==
    LET t1 == Align(current_top, ReservedLayout.align) + ReservedLayout.size
        t2 == NewTopLimit(Align(t1, layout.align) + layout.size, max_size)
    IN  Align(t2, PageSize)

LowestOf(S) == CHOOSE f \in S : \A g \in S : f <= g

\* PageDirectory::set_page_no_alloc(None, addr, Some(frame), reserved): a
\* missing page table is built in the reserved memory, and without reserved
\* memory the call fails with AllocError
SetPageNoAlloc(st, page, frame, reserved) ==
    IF TableOf(page) \in st.tables
    THEN [st EXCEPT !.mapped[page] = frame, !.ok = TRUE]
    ELSE IF reserved # 0
    THEN [st EXCEPT !.mapped[page] = frame, !.tables = @ \cup {TableOf(page)},
                    !.ok = TRUE, !.used_reserve = @ + 1]
    ELSE [st EXCEPT !.ok = FALSE]

\* one round of the loop of alloc_pages
MapOnePage(st, page) ==
    IF st.free = {} THEN [st EXCEPT !.ok = FALSE]
    ELSE LET frame == LowestOf(st.free)
             st1 == [st EXCEPT !.free = @ \ {frame}]
             first == SetPageNoAlloc(st1, page, frame, 0)
         IN  IF first.ok THEN first
             ELSE SetPageNoAlloc([st1 EXCEPT !.reserved = 0], page, frame, st1.reserved)

\* fn alloc_pages(current_top, new_top, reserved_memory)
RECURSIVE AllocPages(_, _, _)
AllocPages(st, page, end) ==
    IF page >= end THEN st
    ELSE LET st1 == MapOnePage(st, page)
         IN  IF st1.ok THEN AllocPages(st1, page + 1, end) ELSE st1

\* the cleanup loop after a failed alloc_pages
\* PageDirectory::get_page: the frame a page is mapped to, 0 for None
GetPage(mapped, page) == IF page \in DOMAIN mapped THEN mapped[page] ELSE 0

CleanupOnePage(st, page) ==
    IF GetPage(st.mapped, page) # 0
    THEN [st EXCEPT !.free = @ \cup {st.mapped[page]}, !.mapped[page] = 0]
    ELSE st

RECURSIVE Cleanup(_, _, _)
Cleanup(st, page, end) ==
    IF page >= end THEN st
    ELSE Cleanup(CleanupOnePage(st, page), page + 1, end)

\* Reserved::allocate: a block for one page table out of the inner heap, 0
\* when the heap has no room for it
ReservedAllocate(top, blocks, rblocks) == FirstFit(blocks \cup rblocks, top, ReservedLayout)

ReplenishNever(top, blocks, rblocks, reserved) ==
    [reserved |-> reserved, rblocks |-> rblocks]

\* the reserve is made again once the heap was extended, when it was used up
Replenish(top, blocks, rblocks, reserved) ==
    IF reserved # 0 THEN [reserved |-> reserved, rblocks |-> rblocks]
    ELSE LET a == ReservedAllocate(top, blocks, rblocks)
         IN  IF a = 0 THEN [reserved |-> 0, rblocks |-> rblocks]
             ELSE [reserved |-> a,
                   rblocks |-> rblocks \cup {[addr |-> a, size |-> ReservedLayout.size]}]

\* the locks a call of the global allocator takes, in the order it takes
\* them, each held until the call returns: the allocator state, and in
\* alloc_pages the kernel page directory and the page manager
AllocLocks == <<"heap">>

GrowthLocks == <<"heap", "page_directory", "frame_allocator">>

HNoOp == [op |-> "none", ok |-> TRUE, grew |-> FALSE, layout |-> ReservedLayout,
          old_top |-> 0, new_top |-> 0, new_tables |-> 0, reserve_before |-> 0,
          frames_needed |-> 0, frames_free |-> 0, leaked |-> 0, mapped_left |-> 0,
          growth_failed |-> FALSE, used_reserve |-> 0, locks |-> <<>>]

NewTablesNeeded(tables, from, to) ==
    Cardinality({TableOf(pg) : pg \in from..(to - 1)} \ tables)

HeapPages == PageOf(HeapBase)..PageOf(HeapLimit)

HeapInit ==
    /\ h_top = HeapBase + HeapInitSize
    /\ h_blocks = {}
    /\ h_rblocks = {}
    /\ h_reserved = 0
    /\ h_max_size = 0
    /\ h_alloc_state = "None"
    /\ h_mapped = [pg \in HeapPages |->
                     IF pg < PageOf(HeapBase + HeapInitSize) THEN NHFrames + 1 + pg ELSE 0]
    /\ h_tables = {TableOf(pg) : pg \in PageOf(HeapBase)..(PageOf(HeapBase + HeapInitSize) - 1)}
    /\ h_free = HFrames
    /\ h_other = {}
    /\ h_nallocs = 0
    /\ h_last = HNoOp

\* HeapAllocator::new(base, size, max_size), stored as AllocState::Heap
HNew(max_size) ==
    /\ h_alloc_state = "None"
    /\ h_alloc_state' = "Heap"
    /\ h_max_size' = max_size
    /\ h_reserved' = -1
    /\ h_last' = [HNoOp EXCEPT !.op = "new"]
    /\ UNCHANGED <<h_top, h_blocks, h_rblocks, h_mapped, h_tables, h_free, h_other,
                   h_nallocs>>
    /\ UNCHANGED notHeapVars

\* HeapAllocator::alloc
HAlloc(layout) ==
    /\ h_alloc_state = "Heap"
    /\ h_nallocs < MaxAllocs
    /\ h_nallocs' = h_nallocs + 1
    /\ LET a == FirstFit(h_blocks \cup h_rblocks, h_top, layout)
       IN  IF a # 0
           THEN /\ h_blocks' = h_blocks \cup {[addr |-> a, size |-> layout.size]}
                /\ h_last' = [HNoOp EXCEPT !.op = "alloc", !.layout = layout,
                                           !.old_top = h_top, !.new_top = h_top,
                                           !.locks = AllocLocks]
                /\ UNCHANGED <<h_top, h_rblocks, h_reserved, h_mapped, h_tables, h_free>>
           ELSE LET new_top == NewTop(h_top, layout, h_max_size)
                    st0 == [mapped |-> h_mapped, tables |-> h_tables, free |-> h_free,
                            reserved |-> h_reserved, ok |-> TRUE, used_reserve |-> 0]
                    st1 == AllocPages(st0, PageOf(h_top), PageOf(new_top))
                    info == [HNoOp EXCEPT !.op = "alloc", !.layout = layout, !.grew = TRUE,
                                !.locks = GrowthLocks,
                                !.old_top = h_top, !.new_top = new_top,
                                !.new_tables = NewTablesNeeded(h_tables, PageOf(h_top), PageOf(new_top)),
                                !.reserve_before = h_reserved,
                                !.frames_needed = PageOf(new_top) - PageOf(h_top),
                                !.frames_free = Cardinality(h_free)]
                IN  /\ IF ~st1.ok
                       THEN LET st2 == Cleanup(st1, PageOf(h_top), PageOf(new_top))
                            IN  /\ h_mapped' = st2.mapped
                                /\ h_tables' = st2.tables
                                /\ h_free' = st2.free
                                /\ h_reserved' = st2.reserved
                                /\ h_last' = [info EXCEPT !.ok = FALSE, !.growth_failed = TRUE,
                                                 !.used_reserve = st1.used_reserve,
                                                 !.leaked = Cardinality(h_free) - Cardinality(st2.free),
                                                 !.mapped_left = Cardinality({pg \in HeapPages : st2.mapped[pg] # h_mapped[pg]})]
                                /\ UNCHANGED <<h_top, h_blocks, h_rblocks>>
                       ELSE LET r == Replenish(new_top, h_blocks, h_rblocks, st1.reserved)
                                b == FirstFit(h_blocks \cup r.rblocks, new_top, layout)
                            IN  /\ h_mapped' = st1.mapped
                                /\ h_tables' = st1.tables
                                /\ h_free' = st1.free
                                /\ h_top' = new_top
                                /\ h_reserved' = r.reserved
                                /\ h_rblocks' = r.rblocks
                                /\ h_blocks' = IF b = 0 THEN h_blocks
                                               ELSE h_blocks \cup {[addr |-> b, size |-> layout.size]}
                                /\ h_last' = [info EXCEPT !.ok = (b # 0),
                                                             !.used_reserve = st1.used_reserve]
    /\ UNCHANGED <<h_max_size, h_other, h_alloc_state>>
    /\ UNCHANGED notHeapVars

\* HeapAllocator::dealloc of a block handed out earlier
HDealloc ==
    /\ h_alloc_state = "Heap"
    /\ \E b \in h_blocks : h_blocks' = h_blocks \ {b}
    /\ h_last' = [HNoOp EXCEPT !.op = "dealloc", !.locks = AllocLocks]
    /\ UNCHANGED <<h_top, h_rblocks, h_reserved, h_max_size, h_mapped, h_tables,
                   h_free, h_other, h_nallocs, h_alloc_state>>
    /\ UNCHANGED notHeapVars

\* the rest of the kernel takes a frame from the page manager
HTakeFrame ==
    /\ h_free # {}
    /\ Cardinality(h_other) < MaxOther
    /\ h_free' = h_free \ {LowestOf(h_free)}
    /\ h_other' = h_other \cup {LowestOf(h_free)}
    /\ h_last' = [HNoOp EXCEPT !.op = "take"]
    /\ UNCHANGED <<h_top, h_blocks, h_rblocks, h_reserved, h_max_size, h_mapped,
                   h_tables, h_nallocs, h_alloc_state>>
    /\ UNCHANGED notHeapVars

\* and gives one back
HReturnFrame ==
    /\ h_other # {}
    /\ h_other' = h_other \ {LowestOf(h_other)}
    /\ h_free' = h_free \cup {LowestOf(h_other)}
    /\ h_last' = [HNoOp EXCEPT !.op = "return"]
    /\ UNCHANGED <<h_top, h_blocks, h_rblocks, h_reserved, h_max_size, h_mapped,
                   h_tables, h_nallocs, h_alloc_state>>
    /\ UNCHANGED notHeapVars

HeapNext ==
    \/ \E max_size \in MaxSizes : HNew(max_size)
    \/ \E layout \in Layouts : HAlloc(layout)
    \/ HDealloc
    \/ HTakeFrame
    \/ HReturnFrame

GrowthAttempt == h_last.op = "alloc" /\ h_last.grew

\* C7: the heap top never exceeds the heap's maximum, and an allocation that
\* would need the top to move past the maximum returns an error and leaves
\* the top, the mapped pages, the frames and the reserve as they were.
C7_TopNeverPastMaximum ==
    /\ h_alloc_state = "Heap" => h_top <= HeapBase + h_max_size
    /\ (GrowthAttempt /\ h_last.new_top > HeapBase + h_max_size) =>
          /\ ~h_last.ok
          /\ h_top = h_last.old_top
          /\ h_last.mapped_left = 0
          /\ h_last.leaked = 0
          /\ h_reserved = h_last.reserve_before

\* C8: when a growth attempt fails because a page gets no frame or cannot be
\* mapped, every page mapped in the attempt is unmapped again, every frame
\* allocated in the attempt is free again and the heap top has not moved.
C8_FailedGrowthIsUndone ==
    (GrowthAttempt /\ h_last.growth_failed) =>
        /\ h_last.mapped_left = 0
        /\ h_last.leaked = 0
        /\ h_top = h_last.old_top

\* a growth of the case C9 is about: the reserve is there, the pages of the
\* growth lie in one page table that does not exist yet, and the page manager
\* has a frame for every page
OneTableGrowth ==
    /\ GrowthAttempt
    /\ h_last.new_tables = 1
    /\ h_last.reserve_before # 0
    /\ h_last.frames_free >= h_last.frames_needed

\* C9: a growth that needs a new page table takes the table's memory from the
\* reserve and succeeds, the heap top rises by at least one page, and when
\* alloc returns a new reserve is in place for the next such growth.
C9_ReserveUsedAndReplenished ==
    OneTableGrowth =>
        /\ ~h_last.growth_failed
        /\ h_last.ok
        /\ h_last.used_reserve = 1
        /\ h_top = h_last.new_top
        /\ h_top >= h_last.old_top + PageSize
        /\ h_reserved \notin {0, h_last.reserve_before}

\* a second growth across a page-table boundary, served by the reserve that
\* the first one left behind
C9_Witness ==
    /\ OneTableGrowth
    /\ h_last.reserve_before > 0
    /\ h_last.ok
    /\ h_reserved > 0

\* C10: a growth that needs a new page table while the reserve is empty fails
\* with an error, the heap top does not move, and no page of the attempt
\* stays mapped and no frame of the attempt stays allocated.
C10_EmptyReserveFailsCleanly ==
    (GrowthAttempt /\ h_last.reserve_before = 0 /\ h_last.new_tables >= 1) =>
        /\ h_last.growth_failed
        /\ h_top = h_last.old_top
        /\ h_last.mapped_left = 0
        /\ h_last.leaked = 0

(***************************************************************************)
(* push_task's priority computation, applied to sampled tasks.             *)
(***************************************************************************)
\* the place of a lock in the fixed order
LockRank(l) ==
    CASE l = "frame_allocator" -> 1
      [] l = "page_directory" -> 2
      [] l = "heap" -> 3
      [] l = "scheduler" -> 4
      [] l = "process_table" -> 5

\* C24: a path that holds two kernel locks at once took them in the order
\* frame allocator, page directory, heap, scheduler, process table; heap
\* growth in particular.
C24_LocksTakenInOrder ==
    \A i, j \in 1..Len(h_last.locks) :
        i < j => LockRank(h_last.locks[i]) < LockRank(h_last.locks[j])

PrioInit ==
    /\ p_niceness = 0
    /\ p_cpu_time = 0
    /\ p_priority = -1
    /\ p_prev = [cpu_time |-> 0, priority |-> -1]

\* push_task of a task with the given cpu_time and niceness
PushSampled(ct, nice) ==
    /\ p_priority = -1
    /\ p_niceness' = nice
    /\ p_cpu_time' = ct
    /\ p_priority' = Priority(ct, nice)
    /\ p_prev' = [cpu_time |-> 0, priority |-> -1]
    /\ UNCHANGED notPrioVars

\* push_task of the same task after its cpu_time changed
PushAgain(ct) ==
    /\ p_priority # -1
    /\ p_prev.priority = -1
    /\ p_prev' = [cpu_time |-> p_cpu_time, priority |-> p_priority]
    /\ p_cpu_time' = ct
    /\ p_priority' = Priority(ct, p_niceness)
    /\ UNCHANGED p_niceness
    /\ UNCHANGED notPrioVars

PrioNext ==
    \/ \E ct \in CpuTimes, nice \in Nicenesses : PushSampled(ct, nice)
    \/ \E ct \in CpuTimes : PushAgain(ct)

\* d is cpu_time / 4 rounded toward zero
IsQuarter(d, ct) ==
    IF ct >= 0 THEN 4 * d <= ct /\ ct < 4 * d + 4
    ELSE 4 * d - 4 < ct /\ ct <= 4 * d

\* r is MAX_PRIORITY less the Q17.14 sum shifted down by 14 bits
IsRawPriority(r, sum) ==
    (MAX_PRIORITY - r) * Q14 <= sum /\ sum < (MAX_PRIORITY - r + 1) * Q14

Clamped(r) == IF r < 0 THEN 0 ELSE IF r > MAX_PRIORITY THEN MAX_PRIORITY ELSE r

C17_PriorityMonotonic ==
    (p_prev.priority # -1 /\ p_prev.cpu_time <= p_cpu_time) =>
        p_priority <= p_prev.priority

\* the same task pushed again with more cpu_time lands in a lower queue
C17_Witness ==
    /\ p_prev.priority # -1
    /\ p_prev.cpu_time < p_cpu_time
    /\ p_priority < p_prev.priority
    /\ p_niceness = -MaxNiceness

(***************************************************************************)
(* Kernel-half synchronisation on context switch (src/arch/i586/tasks.rs). *)
(* Page tables of the kernel half are shared by reference: a task's        *)
(* directory holds the same table pointers as PAGE_DIR, copied when the    *)
(* task's observed generation differs from PAGE_DIR.page_updates.          *)
(***************************************************************************)
SNoOp == [op |-> "none", task |-> None, reloaded |-> FALSE]

SyncInit ==
    /\ s_tasks = {}
    /\ s_pages = [t \in STasks |-> [k \in KSlots |-> 0]]
    /\ s_task_updates = [t \in STasks |-> 0]
    /\ s_page_dir = [k \in KSlots |-> 0]
    /\ s_dir_updates = 0
    /\ s_current = None
    /\ s_last = SNoOp

\* TaskState::copy_pages_from(dir, LINKED_BASE >> 22, 1024)
CopyPagesFrom(dir) == [k \in KSlots |-> dir[k]]

SynchronizeNever(pages, page_updates, dir, dir_updates) ==
    [pages |-> pages, page_updates |-> page_updates, reloaded |-> FALSE]

\* context_switch: has the kernel page directory been updated?
Synchronize(pages, page_updates, dir, dir_updates) ==
    IF page_updates # dir_updates
    THEN [pages |-> CopyPagesFrom(dir), page_updates |-> dir_updates, reloaded |-> TRUE]
    ELSE [pages |-> pages, page_updates |-> page_updates, reloaded |-> FALSE]

\* a change to a kernel-half entry of PAGE_DIR bumps its generation
KernelDirUpdate(k, table) ==
    /\ s_dir_updates < MaxUpdates
    /\ s_page_dir[k] # table
    /\ s_page_dir' = [s_page_dir EXCEPT ![k] = table]
    /\ s_dir_updates' = s_dir_updates + 1
    /\ s_last' = [SNoOp EXCEPT !.op = "update"]
    /\ UNCHANGED <<s_tasks, s_pages, s_task_updates, s_current>>
    /\ UNCHANGED notSyncVars

\* TaskState::new for a task that is not a fork
SNewTask(t) ==
    /\ t \notin s_tasks
    /\ \A u \in 1..(t - 1) : u \in s_tasks
    /\ s_tasks' = s_tasks \cup {t}
    /\ s_pages' = [s_pages EXCEPT ![t] = CopyPagesFrom(s_page_dir)]
    /\ s_task_updates' = [s_task_updates EXCEPT ![t] = s_dir_updates]
    /\ s_last' = [SNoOp EXCEPT !.op = "new", !.task = t]
    /\ UNCHANGED <<s_page_dir, s_dir_updates, s_current>>
    /\ UNCHANGED notSyncVars

\* fork_task: the child takes the parent's page_updates and the kernel half
\* of PAGE_DIR
SFork(p, c) ==
    /\ p \in s_tasks
    /\ c \notin s_tasks
    /\ \A u \in 1..(c - 1) : u \in s_tasks
    /\ s_tasks' = s_tasks \cup {c}
    /\ s_pages' = [s_pages EXCEPT ![c] = CopyPagesFrom(s_page_dir)]
    /\ s_task_updates' = [s_task_updates EXCEPT ![c] = s_task_updates[p]]
    /\ s_last' = [SNoOp EXCEPT !.op = "fork", !.task = c]
    /\ UNCHANGED <<s_page_dir, s_dir_updates, s_current>>
    /\ UNCHANGED notSyncVars

\* context_switch when switch_tasks found the task t to run
SContextSwitch(t) ==
    /\ t \in s_tasks
    /\ LET r == Synchronize(s_pages[t], s_task_updates[t], s_page_dir, s_dir_updates)
       IN  /\ s_pages' = [s_pages EXCEPT ![t] = r.pages]
           /\ s_task_updates' = [s_task_updates EXCEPT ![t] = r.page_updates]
           /\ s_last' = [SNoOp EXCEPT !.op = "switch", !.task = t,
                                      !.reloaded = r.reloaded]
    /\ s_current' = t
    /\ UNCHANGED <<s_tasks, s_page_dir, s_dir_updates>>
    /\ UNCHANGED notSyncVars

SyncNext ==
    \/ \E k \in KSlots, table \in KTables : KernelDirUpdate(k, table)
    \/ \E t \in STasks : SNewTask(t)
    \/ \E p \in STasks, c \in STasks : SFork(p, c)
    \/ \E t \in STasks : SContextSwitch(t)

\* C20: right after a context switch has installed a task's page directory,
\* the directory's kernel-half entries equal those of the kernel directory
\* and the task's observed generation is the kernel's generation.
C20_SwitchInstallsCurrentKernelHalf ==
    s_last.op = "switch" =>
        /\ s_current = s_last.task
        /\ \A k \in KSlots : s_pages[s_current][k] = s_page_dir[k]
        /\ s_task_updates[s_current] = s_dir_updates

\* the switch to task 2 found its observed generation stale after every
\* kernel-directory update of the model and reloaded its kernel half
C20_Witness ==
    /\ s_last.op = "switch"
    /\ s_last.reloaded
    /\ s_last.task = 2
    /\ s_dir_updates = MaxUpdates
    /\ \E k \in KSlots : s_page_dir[k] # 0

(***************************************************************************)
(* Foreign-memory access (src/arch/i586/tasks.rs): read_mem and write_mem  *)
(* map the task's pages over a buffer of kernel heap pages (map_task_in),  *)
(* copy, and map the buffer's own frames back (map_task_out).              *)
(***************************************************************************)
\* the frame behind kernel heap page k before anything was remapped
KernelFrame0(k) == NMFrames + k

MNoOp == [op |-> "none", addr |-> 0, len |-> 0, ok |-> TRUE, err |-> "none",
          unmapped |-> FALSE, pages_before |-> <<>>]

MapInit ==
    /\ m_pages = [v \in TPages |-> 0]
    /\ m_page_dir = [k \in KPages |-> KernelFrame0(k)]
    /\ m_leaked = {}
    /\ m_free = MFrames
    /\ m_last = MNoOp

\* start and end of the range, aligned to page boundaries
AlignedStart(addr) == addr - (addr % MPageSize)

AlignedEnd(addr, len) ==
    IF (addr + len) % MPageSize # 0
    THEN ((addr + len) - ((addr + len) % MPageSize)) + MPageSize
    ELSE addr + len

\* alloc(layout): the first run of n kernel heap pages not in use, 0 if none
BufferAt(leaked, n) ==
    LET fits == {k \in KPages : \A j \in k..(k + n - 1) : j \in KPages /\ j \notin leaked}
    IN  IF fits = {} THEN 0 ELSE CHOOSE k \in fits : \A j \in fits : k <= j

LowestFrame(free) == CHOOSE f \in free : \A g \in free : f <= g

\* the loop of map_task_in over the pages start..end; st.i is the address of
\* the page in turn
RECURSIVE MapPages(_, _, _, _)
MapPages(st, start, end, ptr) ==
    IF st.i >= end THEN st
    ELSE IF st.i >= MAddrLimit
    THEN [st EXCEPT !.ok = FALSE, !.err = "NotEnoughSpace"]
    ELSE LET v == st.i \div MPageSize
             mapped == st.pages[v] # 0
         IN  IF ~mapped /\ st.free = {}
             THEN [st EXCEPT !.ok = FALSE, !.err = "panic"]
             ELSE LET phys_addr == IF mapped THEN st.pages[v] ELSE LowestFrame(st.free)
                      virt == ptr + ((st.i - start) \div MPageSize)
                  IN  IF \E j \in 1..Len(st.existing_phys) : st.existing_phys[j] = phys_addr
                      THEN [st EXCEPT !.ok = FALSE, !.err = "panic",
                                      !.pages[v] = phys_addr,
                                      !.free = @ \ {phys_addr}]
                      ELSE MapPages([st EXCEPT !.pages[v] = phys_addr,
                                               !.free = @ \ {phys_addr},
                                               !.page_dir[virt] = phys_addr,
                                               !.i = @ + MPageSize],
                                    start, end, ptr)

\* map_task_in
MapTaskIn(pages, page_dir, free, leaked, addr, len) ==
    LET start == AlignedStart(addr)
        end == AlignedEnd(addr, len)
        n == (end - start) \div MPageSize
        ptr == BufferAt(leaked, n)
        st0 == [ok |-> TRUE, err |-> "none", pages |-> pages, page_dir |-> page_dir,
                free |-> free, leaked |-> leaked \cup {k \in KPages : ptr <= k /\ k < ptr + n},
                existing_phys |-> [j \in 1..n |-> page_dir[ptr + j - 1]],
                ptr |-> ptr, n |-> n, i |-> start]
    IN  MapPages(st0, start, end, ptr)

\* map_task_out: the buffer's own frames are mapped back and the buffer is
\* deallocated
MapTaskOut(st) ==
    [st EXCEPT !.page_dir = [k \in KPages |->
                                IF st.ptr <= k /\ k < st.ptr + st.n
                                THEN st.existing_phys[k - st.ptr + 1] ELSE @[k]],
               !.leaked = @ \ {k \in KPages : st.ptr <= k /\ k < st.ptr + st.n}]

\* read_mem / write_mem: map_task_in, on Err return at once, else copy and
\* map_task_out
AccessMem(op, addr, len) ==
    /\ BufferAt(m_leaked, (AlignedEnd(addr, len) - AlignedStart(addr)) \div MPageSize) # 0
    /\ LET r == MapTaskIn(m_pages, m_page_dir, m_free, m_leaked, addr, len)
           st == IF r.ok THEN MapTaskOut(r) ELSE r
       IN  /\ m_pages' = st.pages
           /\ m_page_dir' = st.page_dir
           /\ m_free' = st.free
           /\ m_leaked' = st.leaked
           /\ m_last' = [op |-> op, addr |-> addr, len |-> len, ok |-> st.ok,
                         err |-> st.err,
                         unmapped |-> \E v \in TPages :
                                        /\ AlignedStart(addr) <= v * MPageSize
                                        /\ v * MPageSize < AlignedEnd(addr, len)
                                        /\ m_pages[v] = 0,
                         pages_before |-> m_pages]
    /\ UNCHANGED notMapVars

\* TaskState::alloc_page called for the task itself
MAllocPage(v) ==
    /\ m_pages[v] = 0
    /\ m_free # {}
    /\ m_pages' = [m_pages EXCEPT ![v] = LowestFrame(m_free)]
    /\ m_free' = m_free \ {LowestFrame(m_free)}
    /\ m_last' = [MNoOp EXCEPT !.op = "alloc_page", !.addr = v * MPageSize]
    /\ UNCHANGED <<m_page_dir, m_leaked>>
    /\ UNCHANGED notMapVars

MapNext ==
    \/ \E addr \in 0..(MAddrLimit - 1), len \in 1..MaxLen : AccessMem("read_mem", addr, len)
    \/ \E addr \in 0..(MAddrLimit - 1), len \in 1..MaxLen : AccessMem("write_mem", addr, len)
    \/ \E v \in TPages : MAllocPage(v)

\* C21: a foreign-memory access that returns, with Ok or with Err, leaves
\* every kernel page on the frame it had before the call.
C21_KernelMappingsRestored ==
    [][ (m_last'.op \in {"read_mem", "write_mem"} /\ m_last'.err # "panic") =>
            m_page_dir' = m_page_dir ]_vars

\* C22: a foreign-memory access to a range with a page that the task has not
\* mapped returns an error and leaves the task's address space unchanged.
C22_UnmappedAddressIsError ==
    (m_last.op \in {"read_mem", "write_mem"} /\ m_last.unmapped) =>
        (~m_last.ok /\ m_pages = m_last.pages_before)

(***************************************************************************)
(* A minute of scheduling.  The tasks of XNice are pushed in some order, the *)
(* scheduler is started, and the timer's ticks run the due context          *)
(* switches; the tick that ends a second also runs the once-per-second      *)
(* update, calc_load_avg and then calc_cpu_time for every task.  The tasks  *)
(* stay in user mode and never block.                                       *)
(***************************************************************************)
XNice == <<-MaxNiceness, 0, MaxNiceness>>

XTasks == 1..Len(XNice)

\* timer.millis() ticks make a millisecond
TicksPerSecond == 1000 * Millis

\* a * b / 2^14 of calc_cpu_time, which the code forms in 64 bits: b is split
\* at bit 14 so that no intermediate value leaves TLC's 32 bits; the quotient
\* is the same, rounded toward zero
MulShr14(a, b) ==
    LET m == IF b >= 0 THEN b ELSE -b
        q == a * (m \div Q14) + ((a * (m % Q14)) \div Q14)
    IN  IF b >= 0 THEN q ELSE -q

\* Scheduler::calc_load_avg
CalcLoadAvg(cur_load_avg, cur_ready_tasks) ==
    Shr14(((59 * Q14) \div 60) * cur_load_avg) + (Q14 \div 60) * cur_ready_tasks

\* Task::calc_cpu_time
CalcCpuTime(ct, load_avg, nice) ==
    MulShr14((load_avg * 2 * Q14) \div (load_avg * 2 + Q14), ct) + nice * Q14

XNoOp == [op |-> "none", task |-> None, fed |-> -1]

SimInit ==
    sim = [run_queues |-> [i \in 0..MAX_PRIORITY |-> <<>>],
           ready_tasks |-> 0,
           cpu_time |-> [t \in XTasks |-> 0],
           current_task |-> None,
           expires_at |-> 0,
           timeout |-> U64_MAX,
           jiffies |-> 0,
           load_avg |-> 0,
           run_time |-> [t \in XTasks |-> 0],
           picks |-> [t \in XTasks |-> 0],
           last |-> XNoOp]

XQueued == {t \in XTasks : \E i \in 0..MAX_PRIORITY : \E k \in 1..Len(x_run_queues[i]) :
                              x_run_queues[i][k] = t}

\* Scheduler::push_task of a new task
XSpawn(t) ==
    /\ UNCHANGED notSimVars
    /\ x_timeout = U64_MAX
    /\ t \notin XQueued
    /\ LET s == PushTaskNice([run_queues |-> x_run_queues, ready_tasks |-> x_ready_tasks,
                              cpu_time |-> x_cpu_time], t, XNice[t])
       IN  sim' = [sim EXCEPT !.run_queues = s.run_queues,
                              !.ready_tasks = s.ready_tasks,
                              !.last = [XNoOp EXCEPT !.op = "spawn", !.task = t]]

\* Scheduler::start_context_switching
XStart ==
    /\ UNCHANGED notSimVars
    /\ x_timeout = U64_MAX
    /\ XQueued = XTasks
    /\ sim' = [sim EXCEPT !.timeout = 0,
                          !.last = [XNoOp EXCEPT !.op = "start"]]

XState ==
    [run_queues |-> x_run_queues, ready_tasks |-> x_ready_tasks,
     cpu_time |-> x_cpu_time, current_task |-> x_current_task,
     expires_at |-> x_expires_at, timeout |-> x_timeout,
     run_time |-> x_run_time, picks |-> x_picks, now |-> x_jiffies]

\* the ticks up to tick `to` pass with the current task on the CPU
XElapse(s, to) ==
    [s EXCEPT !.run_time = IF s.current_task = None THEN @
                           ELSE [@ EXCEPT ![s.current_task] = @ + (to - s.now)],
              !.now = to]

\* Scheduler::context_switch_timeout at tick j, the interrupted frame being
\* user code
XSwitch(s, j) ==
    LET s1 == IF s.current_task = None THEN s
              ELSE PushTaskNice([s EXCEPT !.current_task = None], s.current_task,
                                XNice[s.current_task])
        p == PopTask(s1.run_queues, s1.ready_tasks, [t \in XTasks |-> "Running"])
    IN  IF p.task # None
        THEN [s1 EXCEPT !.run_queues = p.run_queues,
                        !.ready_tasks = p.ready_tasks,
                        !.cpu_time[p.task] = @ + TimeUsed(s.expires_at, j),
                        !.current_task = p.task,
                        !.picks[p.task] = @ + 1,
                        !.expires_at = j + TIME_SLICE,
                        !.timeout = j + TIME_SLICE]
        ELSE [s1 EXCEPT !.run_queues = p.run_queues,
                        !.ready_tasks = p.ready_tasks,
                        !.timeout = U64_MAX]

\* the timer ticks up to the next tick on which something happens: the
\* scheduler's timeout fires on the first tick that is not before its fire
\* tick, and the tick that ends a second runs the once-per-second update
XNextFire(s) == Max(s.timeout, s.now + 1)

XSecondEnd(j) == (j \div TicksPerSecond + 1) * TicksPerSecond

XTicks ==
    /\ UNCHANGED notSimVars
    /\ x_timeout # U64_MAX
    /\ x_jiffies < SimSeconds * TicksPerSecond
    /\ LET j == Min(XNextFire(XState), XSecondEnd(x_jiffies))
           e == XElapse(XState, j)
           s == IF XNextFire(XState) = j THEN XSwitch(e, j) ELSE e
           second == (j = XSecondEnd(x_jiffies))
           new_load_avg == IF second THEN CalcLoadAvg(x_load_avg, s.ready_tasks)
                           ELSE x_load_avg
       IN  sim' = [run_queues |-> s.run_queues,
                   ready_tasks |-> s.ready_tasks,
                   current_task |-> s.current_task,
                   expires_at |-> s.expires_at,
                   timeout |-> s.timeout,
                   run_time |-> s.run_time,
                   picks |-> s.picks,
                   jiffies |-> j,
                   load_avg |-> new_load_avg,
                   cpu_time |-> IF second
                                THEN [t \in XTasks |->
                                         CalcCpuTime(s.cpu_time[t], new_load_avg, XNice[t])]
                                ELSE s.cpu_time,
                   last |-> [XNoOp EXCEPT !.op = IF second THEN "second" ELSE "switch",
                                          !.task = s.current_task,
                                          !.fed = IF second THEN s.ready_tasks ELSE -1]]

SimNext ==
    \/ \E t \in XTasks : XSpawn(t)
    \/ XStart
    \/ XTicks

\* the minute is over
MinuteOver == x_last.op = "second" /\ x_jiffies = SimSeconds * TicksPerSecond

\* C26: with three tasks that stay Running for 60 seconds and calc_load_avg
\* run once per second, every update is fed a ready-task count of three and
\* after the minute load_avg is within 0.05 of 3.0
C26_LoadAvgConvergesToThree ==
    /\ x_last.op = "second" => x_last.fed = Len(XNice)
    /\ MinuteOver =>
          /\ x_load_avg >= Len(XNice) * Q14 - Q14 \div 20
          /\ x_load_avg <= Len(XNice) * Q14 + Q14 \div 20

Wide(x) == [int |-> x \div Q14, frac |-> x % Q14]

WideAdd(a, b) ==
    [int |-> a.int + b.int + (a.frac + b.frac) \div Q14,
     frac |-> (a.frac + b.frac) % Q14]

WideNeg(a) ==
    IF a.frac = 0 THEN [int |-> -a.int, frac |-> 0]
    ELSE [int |-> -a.int - 1, frac |-> Q14 - a.frac]

\* (c * a) / 2^14 rounded toward zero, for 0 <= c < 2^14
WideMulShr14(c, a) ==
    LET m == IF a.int >= 0 THEN a ELSE WideNeg(a)
        hh == m.int \div Q14
        hl == m.int % Q14
        low == c * hl + (c * m.frac) \div Q14
        q == [int |-> c * hh + low \div Q14, frac |-> low % Q14]
    IN  IF a.int >= 0 THEN q ELSE WideNeg(q)

\* the closure time_used of context_switch_timeout, for j >= exp
TimeUsedWide(exp, j) ==
    LET d == j - exp
    IN  WideAdd([int |-> TIME_SLICE, frac |-> 0],
                WideAdd([int |-> d \div Millis, frac |-> 0],
                        Wide(((d % Millis) * Q14) \div Millis)))

\* Task::calc_cpu_time
CalcCpuTimeWide(ct, load_avg, nice) ==
    WideAdd(WideMulShr14((load_avg * 2 * Q14) \div (load_avg * 2 + Q14), ct),
            [int |-> nice, frac |-> 0])

QNoOp == [op |-> "none", gap |-> 0, nice |-> 0, ready |-> 0]

FixInit ==
    fix = [cpu_time |-> Wide(0), expires_at |-> 0, load_avg |-> 0, steps |-> 0,
           last |-> QNoOp]

\* context_switch_timeout picks the task, gap ticks after the end of the
\* slice before: at once, a tick late, or after the CPU has idled
QPick(gap) ==
    /\ UNCHANGED notFixVars
    /\ q_steps < MaxSteps
    /\ LET j == q_expires_at + gap
       IN  fix' = [fix EXCEPT !.cpu_time = WideAdd(@, TimeUsedWide(q_expires_at, j)),
                              !.expires_at = j + TIME_SLICE,
                              !.steps = @ + 1,
                              !.last = [QNoOp EXCEPT !.op = "pick", !.gap = gap]]

\* Task::calc_cpu_time with the task's niceness
QDecay(nice) ==
    /\ UNCHANGED notFixVars
    /\ q_steps < MaxSteps
    /\ fix' = [fix EXCEPT !.cpu_time = CalcCpuTimeWide(@, q_load_avg, nice),
                          !.steps = @ + 1,
                          !.last = [QNoOp EXCEPT !.op = "decay", !.nice = nice]]

\* Scheduler::calc_load_avg with ready tasks queued
QLoadUpdate(ready) ==
    /\ UNCHANGED notFixVars
    /\ q_steps < MaxSteps
    /\ fix' = [fix EXCEPT !.load_avg = CalcLoadAvg(@, ready),
                          !.steps = @ + 1,
                          !.last = [QNoOp EXCEPT !.op = "load", !.ready = ready]]

FixNext ==
    \/ \E gap \in Gaps : QPick(gap)
    \/ \E nice \in {-MaxNiceness, 0, MaxNiceness} : QDecay(nice)
    \/ \E ready \in 0..MaxReady : QLoadUpdate(ready)

\* what a 32-bit Q17.14 word can hold
InQ17_14(w) == w.int >= -(Q14 * 8) /\ w.int <= Q14 * 8 - 1

\* C28: after any sequence of picks, decays and load updates cpu_time and
\* load_avg are within the range of a 32-bit Q17.14 word
C28_FixedPointStaysInRange ==
    /\ InQ17_14(q_cpu_time)
    /\ InQ17_14(Wide(q_load_avg))

(***************************************************************************)
(* The hole-index heap of src/mm/heap.rs.  Addresses are byte addresses     *)
(* relative to KHEAP_START, which is page aligned and not zero, so that an  *)
(* absolute address masked with INV_PAGE_SIZE is never zero.  Memory is      *)
(* kept word by word: a header is the three words magic, is_hole, size, a   *)
(* footer the two words magic, header.  A word the heap never wrote reads   *)
(* as anything: `g` says whether such a word equals what it is compared to. *)
(* `checks` says whether the build checks integer overflow.                 *)
(***************************************************************************)
Store(mem, a, v) == (a :> v) @@ mem

Written(mem, a) == a \in DOMAIN mem

WriteHeader(mem, a, is_hole, size) ==
    Store(Store(Store(mem, a, MAGIC_NUMBER), a + 4, is_hole), a + 8, size)

WriteFooter(mem, a, header) ==
    Store(Store(mem, a, MAGIC_NUMBER), a + 4, header)

\* x & INV_PAGE_SIZE of a size or a relative address
AndInv(x) == x - (x % PAGE_SIZE)

\* a < b of two usize words; a word with the top bit set is written as the
\* negative i32 of the same bits
ULess(a, b) == IF (a < 0) = (b < 0) THEN a < b ELSE b < 0

\* OrderedArray::insert: before the first element that is not smaller
RECURSIVE InsertAt(_, _, _, _)
InsertAt(index, mem, item, i) ==
    IF i > Len(index) \/ ~ULess(mem[index[i] + 8], mem[item + 8])
    THEN SubSeq(index, 1, i - 1) \o <<item>> \o SubSeq(index, i, Len(index))
    ELSE InsertAt(index, mem, item, i + 1)

IndexInsert(index, mem, item) == InsertAt(index, mem, item, 1)

\* OrderedArray::remove
IndexRemove(index, i) == SubSeq(index, 1, i - 1) \o SubSeq(index, i + 1, Len(index))

\* the first position of a pointer in the index, 0 when it is not there
IndexOf(index, ptr) ==
    IF \E i \in 1..Len(index) : index[i] = ptr
    THEN CHOOSE i \in 1..Len(index) :
            index[i] = ptr /\ \A k \in 1..(i - 1) : index[k] # ptr
    ELSE 0

\* Heap::new: the index array sits at the start, the first hole after it
KHeapStart ==
    AndInv(HEAP_INDEX_SIZE * SizeOfHeaderPtr) + PAGE_SIZE

\* Heap::find_smallest_hole; 0 stands for None
RECURSIVE FindFrom(_, _, _, _, _)
FindFrom(index, mem, size, page_align, i) ==
    IF i > Len(index) THEN 0
    ELSE LET location == index[i]
             offset == PAGE_SIZE - ((location + SizeOfHeader) % PAGE_SIZE)
         IN  IF page_align
             THEN IF mem[location + 8] - offset >= size THEN i
                  ELSE FindFrom(index, mem, size, page_align, i + 1)
             ELSE IF ~ULess(mem[location + 8], size) THEN i
                  ELSE FindFrom(index, mem, size, page_align, i + 1)

FindSmallestHole(h, size, page_align) == FindFrom(h.index, h.mem, size, page_align, 1)

\* the rounding of Heap::expand and Heap::contract
RoundSize(new_size) ==
    IF AndInv(new_size) # 0 THEN AndInv(new_size) + PAGE_SIZE ELSE new_size

\* the header with the highest address in the index, 0 when it is empty
LastHeader(index) ==
    IF index = <<>> THEN 0
    ELSE CHOOSE a \in {index[i] : i \in 1..Len(index)} :
            \A i \in 1..Len(index) : index[i] <= a

\* Heap::alloc, the branch that has no large enough hole: Heap::expand and
\* the hole at the end made larger or created
Grow(h, new_size) ==
    LET old_length == h.end - KHeapStart
        rounded == RoundSize(old_length + new_size)
        new_length == rounded
        value == LastHeader(h.index)
    IN  IF KHeapStart + rounded > KHEAP_MAX_SIZE
        THEN [h EXCEPT !.panic = "assertion failed: start_address + new_size <= max_address"]
        ELSE IF value # 0
        THEN LET size == h.mem[value + 8] + (new_length - old_length)
             IN  [h EXCEPT !.end = KHeapStart + rounded, !.expanded = TRUE,
                           !.mem = WriteFooter(Store(@, value + 8, size),
                                               value + size - SizeOfFooter, value)]
        ELSE LET header == h.end
                 size == new_length - old_length
                 mem == WriteFooter(WriteHeader(h.mem, header, 1, size),
                                    header + size - SizeOfFooter, header)
             IN  [h EXCEPT !.end = KHeapStart + rounded, !.expanded = TRUE,
                           !.mem = mem,
                           !.index = IndexInsert(@, mem, header)]

\* Heap::alloc, the branch that found the hole at hole_index
Carve(h, size, page_align, hole_index, checks) ==
    LET orig_hole_header == h.index[hole_index]
        orig_size == h.mem[orig_hole_header + 8]
        wanted == size + SizeOfHeader + SizeOfFooter
        new_size == IF orig_size - wanted < SizeOfHeader + SizeOfFooter
                    THEN orig_size ELSE wanted
        lead == PAGE_SIZE - (orig_hole_header % PAGE_SIZE) - SizeOfHeader
        new_location == orig_hole_header + lead
        pos == IF page_align THEN new_location ELSE orig_hole_header
        hole_size == IF page_align THEN orig_size - lead ELSE orig_size
        m1 == IF page_align
              THEN WriteFooter(WriteHeader(h.mem, orig_hole_header, 1, lead),
                               new_location - SizeOfFooter, orig_hole_header)
              ELSE h.mem
        i1 == IF page_align THEN h.index ELSE IndexRemove(h.index, hole_index)
        m2 == WriteFooter(WriteHeader(m1, pos, 0, new_size),
                          pos + SizeOfHeader + size, pos)
        rest == hole_size - new_size
        hole_header == pos + new_size
        hole_footer == pos + hole_size - SizeOfFooter
        m3 == WriteHeader(m2, hole_header, 1, rest)
        m4 == IF hole_footer < h.end THEN WriteFooter(m3, hole_footer, hole_header)
              ELSE m3
    IN  IF lead < 0 /\ page_align
        THEN IF checks THEN [h EXCEPT !.panic = "attempt to subtract with overflow"]
             ELSE [h EXCEPT !.panic = "wrapped size"]
        ELSE IF rest < 0
        THEN IF checks THEN [h EXCEPT !.panic = "attempt to subtract with overflow"]
             ELSE [h EXCEPT !.panic = "wrapped size"]
        ELSE IF rest > 0
        THEN [h EXCEPT !.mem = m4, !.index = IndexInsert(i1, m4, hole_header),
                       !.ret = pos + SizeOfHeader]
        ELSE [h EXCEPT !.mem = m2, !.index = i1, !.ret = pos + SizeOfHeader]

\* a hole of the index whose size word has been overwritten by a footer's
\* magic number; what the heap does with such a hole is not followed further
CorruptHole(h) == \E i \in 1..Len(h.index) : h.mem[h.index[i] + 8] < 0

\* Heap::alloc(size, page_align)
RECURSIVE Alloc(_, _, _, _)
Alloc(h, size, page_align, checks) ==
    LET new_size == size + SizeOfHeader + SizeOfFooter
        hole_index == FindSmallestHole(h, new_size, page_align)
    IN  IF CorruptHole(h) THEN [h EXCEPT !.panic = "corrupt hole"]
        ELSE IF hole_index # 0 THEN Carve(h, size, page_align, hole_index, checks)
        ELSE LET grown == Grow(h, new_size)
             IN  IF grown.panic # "" THEN grown
                 ELSE Alloc(grown, size, page_align, checks)

\* Heap::contract(new_size): the new length of the heap
Contract(new_size) ==
    LET rounded == RoundSize(new_size)
    IN  IF rounded < HEAP_MIN_SIZE THEN HEAP_MIN_SIZE ELSE rounded

\* Heap::free, after the header and the footer have been found good: unify
\* left, unify right, contract, add to the index
Unify(h, header_ptr, footer_ptr, g, checks) ==
    LET size0 == h.mem[header_ptr + 8]
        m1 == Store(h.mem, header_ptr + 4, 1)
        test_footer == header_ptr - SizeOfFooter
        left_magic == IF Written(m1, test_footer) THEN m1[test_footer] = MAGIC_NUMBER
                      ELSE g
        left_header == IF Written(m1, test_footer + 4) THEN m1[test_footer + 4] ELSE -1
        left_wild == left_magic /\ (~Written(m1, left_header + 4)
                                      \/ ~Written(m1, left_header + 8))
        left == left_magic /\ ~left_wild /\ m1[left_header + 4] = 1
        hp == IF left THEN left_header ELSE header_ptr
        m2 == IF left
              THEN Store(Store(m1, footer_ptr + 4, hp), hp + 8, m1[hp + 8] + size0)
              ELSE m1
        test_header == footer_ptr + SizeOfFooter
        right_magic == IF Written(m2, test_header) THEN m2[test_header] = MAGIC_NUMBER
                       ELSE g
        right_hole == IF Written(m2, test_header + 4) THEN m2[test_header + 4] = 1
                      ELSE g
        right == right_magic /\ right_hole
        right_wild == right /\ ~Written(m2, test_header + 8)
        m3 == IF right /\ ~right_wild
              THEN Store(m2, hp + 8, m2[hp + 8] + m2[test_header + 8])
              ELSE m2
        fp == IF right /\ ~right_wild
              THEN test_header + m2[test_header + 8] - SizeOfFooter
              ELSE footer_ptr
        found == IndexOf(h.index, test_header)
        i3 == IF right /\ found # 0 THEN IndexRemove(h.index, found) ELSE h.index
        at_end == fp + SizeOfFooter = h.end
        old_length == h.end - KHeapStart
        new_length == Contract(hp - KHeapStart)
        new_end == IF at_end THEN KHeapStart + new_length ELSE h.end
        still == m3[hp + 8] - old_length - new_length
        size4 == m3[hp + 8] - (old_length - new_length)
        m4 == IF at_end /\ (still < 0 \/ still > 0)
              THEN WriteFooter(Store(m3, hp + 8, size4), hp + size4 - SizeOfFooter, hp)
              ELSE m3
        gone == IndexOf(i3, test_header)
        i4 == IF at_end /\ still = 0 /\ gone # 0 THEN IndexRemove(i3, gone) ELSE i3
    IN  IF left_wild \/ right_wild
        THEN [h EXCEPT !.panic = "wild pointer"]
        ELSE IF right /\ found = 0
        THEN [h EXCEPT !.panic = "header doesn't exist in index"]
        ELSE IF at_end /\ ~(hp - KHeapStart < old_length)
        THEN [h EXCEPT !.panic = "new size is greater than current size"]
        ELSE IF at_end /\ checks /\ (still < 0 \/ old_length - new_length < 0)
        THEN [h EXCEPT !.panic = "attempt to subtract with overflow"]
        ELSE IF at_end /\ (old_length - new_length < 0 \/ size4 < SizeOfFooter)
        THEN [h EXCEPT !.panic = "wrapped size"]
        ELSE [h EXCEPT !.mem = m4, !.end = new_end,
                       !.index = IF left THEN i4 ELSE IndexInsert(i4, m4, hp)]

\* Heap::free(raw_ptr) of a pointer that alloc returned
Free(h, raw_ptr, g, checks) ==
    LET header_ptr == raw_ptr - SizeOfHeader
        footer_ptr == header_ptr + h.mem[header_ptr + 8] - SizeOfFooter
        footer_magic == IF Written(h.mem, footer_ptr) THEN h.mem[footer_ptr] = MAGIC_NUMBER
                        ELSE g
    IN  IF h.mem[header_ptr] # MAGIC_NUMBER
        THEN [h EXCEPT !.panic = "header magic number doesn't match"]
        ELSE IF ~footer_magic
        THEN [h EXCEPT !.panic = "footer magic number doesn't match"]
        ELSE Unify(h, header_ptr, footer_ptr, g, checks)

KNoOp == [op |-> "none", size |-> 0, page_align |-> FALSE, ptr |-> 0, panic |-> "",
          expanded |-> FALSE, paired |-> FALSE, before |-> {}]

\* the holes of the index, as address and size
Holes(index, mem) == {<<index[i], mem[index[i] + 8]>> : i \in 1..Len(index)}

\* Heap::new(KHEAP_START, KHEAP_START + KHEAP_INITIAL_SIZE, ...)
HoleInit ==
    kheap = [index |-> <<KHeapStart>>,
             mem |-> WriteHeader(<<>>, KHeapStart, 1, KHEAP_INITIAL_SIZE - KHeapStart),
             end_address |-> KHEAP_INITIAL_SIZE,
             live |-> [k \in 1..MaxCalls |-> 0],
             steps |-> 0,
             last |-> KNoOp]

KHeap == [index |-> kh_index, mem |-> kh_mem, end |-> kh_end_address,
          panic |-> "", ret |-> 0, expanded |-> FALSE]

KCommit(h) ==
    IF h.panic = "" THEN [index |-> h.index, mem |-> h.mem, end_address |-> h.end]
    ELSE [index |-> kh_index, mem |-> kh_mem, end_address |-> kh_end_address]

KAlloc(size, page_align, checks) ==
    /\ UNCHANGED notHoleVars
    /\ kh_last.panic = ""
    /\ kh_steps < MaxCalls
    /\ LET h == Alloc(KHeap, size, page_align, checks)
           c == KCommit(h)
       IN  kheap' = [index |-> c.index, mem |-> c.mem, end_address |-> c.end_address,
                     live |-> IF h.panic = "" THEN [kh_live EXCEPT ![kh_steps + 1] = h.ret]
                              ELSE kh_live,
                     steps |-> kh_steps + 1,
                     last |-> [KNoOp EXCEPT !.op = "alloc", !.size = size,
                                            !.page_align = page_align, !.ptr = h.ret,
                                            !.panic = h.panic, !.expanded = h.expanded,
                                            !.before = Holes(kh_index, kh_mem)]]

KFree(k, g, checks) ==
    /\ UNCHANGED notHoleVars
    /\ kh_last.panic = ""
    /\ kh_steps < MaxCalls
    /\ kh_live[k] # 0
    /\ LET raw_ptr == kh_live[k]
           h == Free(KHeap, raw_ptr, g, checks)
           c == KCommit(h)
       IN  kheap' = [index |-> c.index, mem |-> c.mem, end_address |-> c.end_address,
                     live |-> [kh_live EXCEPT ![k] = 0],
                     steps |-> kh_steps + 1,
                     last |-> [KNoOp EXCEPT !.op = "free", !.ptr = raw_ptr,
                                            !.panic = h.panic,
                                            !.size = kh_last.size,
                                            !.page_align = kh_last.page_align,
                                            !.paired = (kh_last.op = "alloc"
                                                        /\ kh_last.ptr = raw_ptr
                                                        /\ ~kh_last.expanded),
                                            !.before = kh_last.before]]

\* requests: small ones, one that leaves less than a header and a footer of
\* the first hole, one that takes the first hole whole, one that needs an
\* expansion
KSizes == {4, 16, KHEAP_INITIAL_SIZE - KHeapStart - 24, KHEAP_INITIAL_SIZE - KHeapStart - 20,
           KHEAP_INITIAL_SIZE}

HoleNext ==
    \/ \E size \in KSizes, page_align \in BOOLEAN, checks \in BOOLEAN :
          KAlloc(size, page_align, checks)
    \/ \E k \in 1..MaxCalls, g \in BOOLEAN, checks \in BOOLEAN :
          KFree(k, g, checks)

\* C29: Heap::alloc(n), n fitting without an expansion, followed directly by
\* Heap::free of the returned pointer fires no assertion and no panic and
\* leaves in the index the holes, by address and size, that were there
\* before the pair
C29_AllocFreeRestoresHoles ==
    (kh_last.op = "free" /\ kh_last.paired /\ ~kh_last.page_align) =>
        /\ kh_last.panic = ""
        /\ Holes(kh_index, kh_mem) = kh_last.before

\* the headers of the blocks the heap knows: the holes of the index and the
\* blocks handed out and not yet freed
KBlocks ==
    {kh_index[i] : i \in 1..Len(kh_index)}
        \cup {kh_live[k] - SizeOfHeader : k \in {n \in 1..MaxCalls : kh_live[n] # 0}}

\* the footer at the end of the block points back to the block's header
FooterPointsBack(mem, a) ==
    LET footer == a + mem[a + 8] - SizeOfFooter
    IN  /\ Written(mem, footer) /\ Written(mem, footer + 4)
        /\ mem[footer] = MAGIC_NUMBER
        /\ mem[footer + 4] = a

\* C35: after every alloc and every free that returned, no two holes of the
\* index are adjacent in memory, every index entry is a hole, and the
\* footer of every block points back to its header.
C35_HolesCoalescedAndFootersPointBack ==
    (kh_last.op # "none" /\ kh_last.panic = "") =>
        /\ \A i \in 1..Len(kh_index) :
              /\ kh_mem[kh_index[i]] = MAGIC_NUMBER
              /\ kh_mem[kh_index[i] + 4] = 1
        /\ \A i, j \in 1..Len(kh_index) :
              kh_index[i] + kh_mem[kh_index[i] + 8] # kh_index[j]
        /\ \A a \in KBlocks : FooterPointsBack(kh_mem, a)

(***************************************************************************)
(* TarIterator over a well-formed archive: every entry is a 512-byte header *)
(* block followed by its contents padded to whole blocks, and two blocks of *)
(* zeros end the archive.  An entry is known by its file size; the bytes of *)
(* a file do not make up a header with a matching checksum.                 *)
(***************************************************************************)
\* x & !(BLOCK_SIZE - 1)
BlockFloor(x) == x - (x % BLOCK_SIZE)

BlocksOf(size) == (size + BLOCK_SIZE - 1) \div BLOCK_SIZE

\* where the header of entry k is, and with k = Len(archive) + 1 where the
\* zero blocks begin
RECURSIVE HeaderOffset(_, _)
HeaderOffset(archive, k) ==
    IF k = 1 THEN 0
    ELSE HeaderOffset(archive, k - 1) + BLOCK_SIZE + BlocksOf(archive[k - 1]) * BLOCK_SIZE

DataLen(archive) == HeaderOffset(archive, Len(archive) + 1) + 2 * BLOCK_SIZE

\* the entry whose header is at the offset, 0 when there is none
EntryAt(archive, offset) ==
    IF \E k \in 1..Len(archive) : HeaderOffset(archive, k) = offset
    THEN CHOOSE k \in 1..Len(archive) : HeaderOffset(archive, k) = offset
    ELSE 0

TNoOp == [op |-> "none", header |-> 0, entry |-> 0, file_size |-> 0,
          contents_offset |-> 0, contents_end |-> 0, some |-> FALSE]

TarInit ==
    tar = [archive |-> <<>>, iterating |-> FALSE, offset |-> 0, yielded |-> <<>>,
           done |-> FALSE, last |-> TNoOp]

\* the archive gets one more entry
TarAppend(size) ==
    /\ UNCHANGED notTarVars
    /\ ~tar_iterating
    /\ Len(tar_archive) < MaxEntries
    /\ tar' = [tar EXCEPT !.archive = Append(@, size),
                          !.last = [TNoOp EXCEPT !.op = "append", !.file_size = size]]

\* TarIterator::new
TarNew ==
    /\ UNCHANGED notTarVars
    /\ ~tar_iterating
    /\ tar' = [tar EXCEPT !.iterating = TRUE, !.offset = 0,
                          !.last = [TNoOp EXCEPT !.op = "new"]]

\* TarIterator::next
TarIteratorNext ==
    /\ UNCHANGED notTarVars
    /\ tar_iterating
    /\ ~tar_done
    /\ LET entry == EntryAt(tar_archive, tar_offset)
           file_size == tar_archive[entry]
           contents_offset == IF file_size = 0 THEN tar_offset + SizeOfTarHeader
                              ELSE BlockFloor(tar_offset + SizeOfTarHeader) + BLOCK_SIZE
           contents_end == contents_offset + file_size
       IN  IF \/ tar_offset >= DataLen(tar_archive)
              \/ tar_offset + SizeOfTarHeader > DataLen(tar_archive)
              \/ entry = 0
           THEN tar' = [tar EXCEPT !.done = TRUE,
                                   !.last = [TNoOp EXCEPT !.op = "next",
                                                          !.header = tar_offset]]
           ELSE tar' = [tar EXCEPT !.offset = BlockFloor(contents_end) + BLOCK_SIZE,
                                   !.yielded = Append(@, entry),
                                   !.last = [TNoOp EXCEPT !.op = "next",
                                                          !.header = tar_offset,
                                                          !.entry = entry,
                                                          !.file_size = file_size,
                                                          !.contents_offset = contents_offset,
                                                          !.contents_end = contents_end,
                                                          !.some = TRUE]]

TarNext ==
    \/ \E size \in TarSizes : TarAppend(size)
    \/ TarNew
    \/ TarIteratorNext

\* C30: after next has returned the entry whose header is at offset o and
\* whose file size is s, the iterator stands at o + 512 + ceil(s / 512) * 512
\* and the entry's contents are the s bytes from o + 512; when next returns
\* None every entry of the archive has been returned, in order
C30_NextHeaderAfterPaddedContents ==
    /\ (tar_last.op = "next" /\ tar_last.some) =>
          /\ tar_offset = tar_last.header + BLOCK_SIZE
                            + BlocksOf(tar_last.file_size) * BLOCK_SIZE
          /\ tar_last.contents_end - tar_last.contents_offset = tar_last.file_size
          /\ tar_last.file_size > 0 => tar_last.contents_offset = tar_last.header + BLOCK_SIZE
    /\ tar_done => tar_yielded = [k \in 1..Len(tar_archive) |-> k]

(***************************************************************************)
(* The loader's page allocation for the kernel's PT_LOAD segments          *)
(* (loader/src/main.rs).  A program header is its virtual address, its      *)
(* size in memory and its write flag; the kernel directory is the set of    *)
(* page addresses it maps and the set of those that are writable.  The      *)
(* headers of the ELF file are drawn first, then loaded in any order.       *)
(***************************************************************************)
MaxSegs == 2

SegVaddrs == {0, 1, PAGE_SIZE}

SegSizes == {1, PAGE_SIZE, PAGE_SIZE + 1}

ProgramHeaders == [vaddr : SegVaddrs, memsz : SegSizes, is_write : BOOLEAN]

ldr_headers == ldr.headers

ldr_done == ldr.done

ldr_present == ldr.present

ldr_writable == ldr.writable

ldr_last == ldr.last

SegInit ==
    ldr = [headers |-> <<>>, done |-> {}, present |-> {}, writable |-> {},
           last |-> "none"]

\* PageManager::alloc_frame as the loader uses it: an unmapped page is mapped
\* with the given write permission, a mapped one is left alone and reported
SegAllocFrame(dir, addr, is_write) ==
    IF addr \in dir.present
    THEN [dir |-> dir, err |-> "FrameInUse"]
    ELSE [dir |-> [present |-> dir.present \cup {addr},
                   writable |-> IF is_write THEN dir.writable \cup {addr}
                                ELSE dir.writable],
          err |-> ""]

\* the body of the loop over a segment's pages
SegLoadPage(dir, addr, ph) ==
    LET r == SegAllocFrame(dir, addr, ph.is_write)
    IN  IF r.err = "FrameInUse" /\ ph.is_write /\ addr \notin dir.writable
        THEN [dir EXCEPT !.writable = @ \cup {addr}]
        ELSE r.dir

\* the last address of the loop: vaddr_align + (memsz / PAGE_SIZE) * PAGE_SIZE + PAGE_SIZE
SegLoopEnd(ph) ==
    (ph.vaddr \div PAGE_SIZE) * PAGE_SIZE + (ph.memsz \div PAGE_SIZE) * PAGE_SIZE + PAGE_SIZE

RECURSIVE SegLoadFrom(_, _, _)
SegLoadFrom(dir, addr, ph) ==
    IF addr > SegLoopEnd(ph) THEN dir
    ELSE SegLoadFrom(SegLoadPage(dir, addr, ph), addr + PAGE_SIZE, ph)

\* the pages the loop allocates for a segment
SegLoopPages(ph) ==
    {a \in SegLoadFrom([present |-> {}, writable |-> {}], (ph.vaddr \div PAGE_SIZE) * PAGE_SIZE, ph).present : TRUE}

\* the pages that hold a byte of the segment, vaddr .. vaddr + memsz - 1
SegPageRange(ph) ==
    {p * PAGE_SIZE : p \in (ph.vaddr \div PAGE_SIZE)..((ph.vaddr + ph.memsz - 1) \div PAGE_SIZE)}

\* the ELF file has one more PT_LOAD program header
PhDeclare(ph) ==
    /\ ldr_done = {}
    /\ Len(ldr_headers) < MaxSegs
    /\ ldr' = [ldr EXCEPT !.headers = Append(@, ph), !.last = "declare"]
    /\ UNCHANGED notLdrVars

\* one PT_LOAD segment is given its pages
PhLoad(k) ==
    /\ k \in 1..Len(ldr_headers)
    /\ k \notin ldr_done
    /\ LET ph == ldr_headers[k]
           dir == SegLoadFrom([present |-> ldr_present, writable |-> ldr_writable],
                              (ph.vaddr \div PAGE_SIZE) * PAGE_SIZE, ph)
       IN  ldr' = [ldr EXCEPT !.done = @ \cup {k}, !.present = dir.present,
                              !.writable = dir.writable, !.last = "load"]
    /\ UNCHANGED notLdrVars

SegNext ==
    \/ \E ph \in ProgramHeaders : PhDeclare(ph)
    \/ \E k \in 1..MaxSegs : PhLoad(k)

SegAllLoaded == ldr_headers # <<>> /\ ldr_done = 1..Len(ldr_headers)

SegCovers(k, p) == p \in SegPageRange(ldr_headers[k])

\* C31: once every PT_LOAD segment is loaded, a page that holds a byte of a
\* segment is mapped, and it is writable exactly when a segment with the
\* write flag holds a byte in that page, whatever the order of loading was
C31_WritableIffWritableSegmentCoversPage ==
    SegAllLoaded =>
        \A k \in 1..Len(ldr_headers) : \A p \in SegPageRange(ldr_headers[k]) :
            /\ p \in ldr_present
            /\ p \in ldr_writable
                  <=> \E n \in 1..Len(ldr_headers) :
                          ldr_headers[n].is_write /\ SegCovers(n, p)

\* what the loop does give, in every order: a page is mapped when some
\* segment's loop reaches it, and writable when such a segment has the flag
SegUnionOverLoopPages ==
    SegAllLoaded =>
        /\ ldr_present = UNION {SegLoopPages(ldr_headers[k]) : k \in 1..Len(ldr_headers)}
        /\ ldr_writable = UNION {SegLoopPages(ldr_headers[k]) :
                                    k \in {n \in 1..Len(ldr_headers) : ldr_headers[n].is_write}}

(***************************************************************************)
(* TaskState::find_hole (src/arch/i586/tasks.rs) over a task's page         *)
(* directory.  The user half of the directory is FhTables page tables of    *)
(* FhTablePages pages each (768 tables of 1024 pages in the kernel, where    *)
(* a table spans 1 << 22 bytes); a table is null until a page of it is      *)
(* first allocated.  Option<usize> is kept as an address or NoHole.         *)
(***************************************************************************)
FhTables == 2

FhTablePages == 2

\* 1 << 22 in the kernel
FhTableSpan == FhTablePages * PAGE_SIZE

\* LINKED_BASE in the kernel
FhLinkedBase == FhTables * FhTableSpan

FhAddrs == {p * PAGE_SIZE : p \in 0..(FhTables * FhTablePages - 1)}

FhStarts == {0, 1, PAGE_SIZE, FhTableSpan}

FhSizes == {1, PAGE_SIZE, 2 * PAGE_SIZE, 3 * PAGE_SIZE}

NoHole == -1

fh_tables == fhole.tables

fh_used == fhole.used

fh_last == fhole.last

FhNoOp == [op |-> "none", start |-> 0, size |-> 0, ret |-> NoHole]

FindInit ==
    fhole = [tables |-> [i \in 0..(FhTables - 1) |-> FALSE], used |-> {}, last |-> FhNoOp]

\* the loop over the pages of a table that is not null
RECURSIVE FindHoleInTable(_, _, _, _, _, _)
FindHoleInTable(used, addr, end, hole_start, start, size) ==
    IF addr >= end THEN [found |-> FALSE, ret |-> NoHole, hole_start |-> hole_start]
    ELSE IF addr \notin used
         THEN IF hole_start # NoHole /\ addr - hole_start <= size
              THEN [found |-> TRUE, ret |-> hole_start, hole_start |-> hole_start]
              ELSE IF size <= PAGE_SIZE /\ addr >= start
              THEN [found |-> TRUE, ret |-> addr, hole_start |-> hole_start]
              ELSE IF hole_start = NoHole /\ addr >= start
              THEN FindHoleInTable(used, addr + PAGE_SIZE, end, addr, start, size)
              ELSE FindHoleInTable(used, addr + PAGE_SIZE, end, hole_start, start, size)
         ELSE FindHoleInTable(used, addr + PAGE_SIZE, end, NoHole, start, size)

\* the loop over the page tables below LINKED_BASE
RECURSIVE FindHoleFrom(_, _, _, _, _, _)
FindHoleFrom(tables, used, i, hole_start, start, size) ==
    IF i >= FhTables THEN NoHole
    ELSE LET addr == i * FhTableSpan
         IN  IF ~tables[i]
             THEN IF addr < start /\ addr + FhTableSpan > start
                  THEN IF addr + FhTableSpan - start >= size
                       THEN start
                       ELSE FindHoleFrom(tables, used, i + 1, start, start, size)
                  ELSE IF hole_start # NoHole /\ addr - hole_start <= size
                  THEN hole_start
                  ELSE IF size <= FhTableSpan /\ addr >= start
                  THEN addr
                  ELSE IF hole_start = NoHole
                  THEN FindHoleFrom(tables, used, i + 1, addr, start, size)
                  ELSE FindHoleFrom(tables, used, i + 1, hole_start, start, size)
             ELSE LET r == FindHoleInTable(used, addr, addr + FhTableSpan, hole_start, start, size)
                  IN  IF r.found THEN r.ret
                      ELSE FindHoleFrom(tables, used, i + 1, r.hole_start, start, size)

find_hole(tables, used, start, size) == FindHoleFrom(tables, used, 0, NoHole, start, size)

\* TaskState::alloc_page on a page that is not in use: get_page makes the table
FhAllocPage(addr) ==
    /\ addr \notin fh_used
    /\ fhole' = [fhole EXCEPT !.tables[addr \div FhTableSpan] = TRUE,
                              !.used = @ \cup {addr},
                              !.last = [FhNoOp EXCEPT !.op = "alloc_page", !.start = addr]]
    /\ UNCHANGED notFholeVars

\* TaskState::free_page on a page in use: the table stays
FhFreePage(addr) ==
    /\ addr \in fh_used
    /\ fhole' = [fhole EXCEPT !.used = @ \ {addr},
                              !.last = [FhNoOp EXCEPT !.op = "free_page", !.start = addr]]
    /\ UNCHANGED notFholeVars

\* TaskState::find_hole
FhFindHole(start, size) ==
    /\ fhole' = [fhole EXCEPT !.last = [op |-> "find_hole", start |-> start, size |-> size,
                                        ret |-> find_hole(fh_tables, fh_used, start, size)]]
    /\ UNCHANGED notFholeVars

FindNext ==
    \/ \E addr \in FhAddrs : FhAllocPage(addr)
    \/ \E addr \in FhAddrs : FhFreePage(addr)
    \/ \E start \in FhStarts, size \in FhSizes : FhFindHole(start, size)

\* every page with a byte in a .. a + size - 1 is unmapped and below LINKED_BASE
FhAreaFree(a, size) ==
    /\ a + size <= FhLinkedBase
    /\ \A p \in (a \div PAGE_SIZE)..((a + size - 1) \div PAGE_SIZE) : p * PAGE_SIZE \notin fh_used

\* C36: an address returned by find_hole(start, size) is not below start and
\* the pages of the size bytes from it are unmapped in the user half of the
\* directory; None is returned only when no address has these two properties
C36_FindHoleReturnsFreeAreaNotBelowStart ==
    fh_last.op = "find_hole" =>
        /\ fh_last.ret # NoHole =>
              /\ fh_last.ret >= fh_last.start
              /\ FhAreaFree(fh_last.ret, fh_last.size)
        /\ fh_last.ret = NoHole =>
              \A a \in fh_last.start..FhLinkedBase : ~FhAreaFree(a, fh_last.size)

(***************************************************************************)
(* The bump allocator of kernel/src/mm/bump_alloc.rs.  Addresses are the    *)
(* physical addresses the allocator counts in (ALLOC_ADDR); the pointer it  *)
(* returns as well is the same address plus ALLOC_OFFSET.  usize is kept at *)
(* BumpWordBits bits; a build either checks its additions for overflow      *)
(* and panics, or wraps them.                                                *)
(***************************************************************************)
BUMP_ALLOC_SIZE == 262144

BumpWordBits == 30

BumpWord == 2 ^ BumpWordBits

MaxBumps == 3

\* where the linker may have put ALLOC_AREA, less ALLOC_OFFSET
BumpAreas == {1048576, 1064968}

BumpAligns == {1, 4096, 2097152}

BumpSizes == {8, 4096, BUMP_ALLOC_SIZE - 4096, BumpWord - 4096}

BumpLayouts == [size : BumpSizes, align : BumpAligns]

b_inited == bump.inited

ALLOC_ADDR_INITIAL == bump.initial

ALLOC_ADDR == bump.addr

b_regions == bump.regions

b_halted == bump.halted

b_last == bump.last

BumpNoOp == [op |-> "none", layout |-> [size |-> 0, align |-> 1], before |-> 0,
             phys_addr |-> 0, panic |-> ""]

BumpInit ==
    bump = [inited |-> FALSE, initial |-> 0, addr |-> 0, regions |-> <<>>,
            halted |-> FALSE, last |-> BumpNoOp]

\* ALLOC_ADDR & !(align - 1), align a power of two
BumpMaskHigh(addr, align) == addr - (addr % align)

\* the alignment step of bump_alloc
BumpAligned(addr, align) ==
    IF align > 1 /\ BumpMaskHigh(addr, align) > 0
    THEN BumpMaskHigh(addr, align) + align
    ELSE addr

\* rounding up to the alignment, leaving an aligned address alone
BumpRoundedUp(addr, align) ==
    IF addr % align = 0 THEN addr ELSE BumpMaskHigh(addr, align) + align

bump_alloc(addr, initial, layout, checks) ==
    LET a == BumpAligned(addr, layout.align)
        tmp == a % BumpWord
        sum == tmp + layout.size
    IN  IF checks /\ (a >= BumpWord \/ sum >= BumpWord)
        THEN [addr |-> addr, phys_addr |-> 0, panic |-> "attempt to add with overflow"]
        ELSE IF sum % BumpWord >= initial + BUMP_ALLOC_SIZE
        THEN [addr |-> sum % BumpWord, phys_addr |-> 0, panic |-> "out of memory (bump_alloc)"]
        ELSE [addr |-> sum % BumpWord, phys_addr |-> tmp, panic |-> ""]

\* init_bump_alloc, once
InitBumpAlloc(area) ==
    /\ ~b_inited
    /\ bump' = [bump EXCEPT !.inited = TRUE, !.initial = area, !.addr = area,
                            !.last = [BumpNoOp EXCEPT !.op = "init"]]
    /\ UNCHANGED notBumpVars

\* bump_alloc; a panic halts the kernel
BumpAlloc(layout, checks) ==
    /\ b_inited
    /\ ~b_halted
    /\ Len(b_regions) < MaxBumps
    /\ LET r == bump_alloc(ALLOC_ADDR, ALLOC_ADDR_INITIAL, layout, checks)
       IN  bump' = [bump EXCEPT
                       !.addr = r.addr,
                       !.halted = r.panic # "",
                       !.regions = IF r.panic = ""
                                   THEN Append(@, [start |-> r.phys_addr, size |-> layout.size,
                                                   align |-> layout.align])
                                   ELSE @,
                       !.last = [op |-> "bump_alloc", layout |-> layout, before |-> ALLOC_ADDR,
                                 phys_addr |-> r.phys_addr, panic |-> r.panic]]
    /\ UNCHANGED notBumpVars

BumpNext ==
    \/ \E area \in BumpAreas : InitBumpAlloc(area)
    \/ \E layout \in BumpLayouts, checks \in BOOLEAN : BumpAlloc(layout, checks)

\* C40: every region bump_alloc returned starts at a multiple of its
\* layout's alignment, lies inside the area of BUMP_ALLOC_SIZE bytes from
\* ALLOC_ADDR_INITIAL and is disjoint from the regions returned before it;
\* a call whose region would end beyond the area panics
C40_RegionsAlignedInsideDisjoint ==
    /\ \A i \in 1..Len(b_regions) :
          /\ b_regions[i].start % b_regions[i].align = 0
          /\ ALLOC_ADDR_INITIAL <= b_regions[i].start
          /\ b_regions[i].start + b_regions[i].size <= ALLOC_ADDR_INITIAL + BUMP_ALLOC_SIZE
          /\ \A j \in 1..(i - 1) :
                b_regions[j].start + b_regions[j].size <= b_regions[i].start
    /\ (b_last.op = "bump_alloc"
          /\ BumpRoundedUp(b_last.before, b_last.layout.align) + b_last.layout.size
                > ALLOC_ADDR_INITIAL + BUMP_ALLOC_SIZE)
       => b_last.panic # ""

Init == SchedInit /\ ForkInit /\ HeapInit /\ PrioInit /\ SyncInit /\ MapInit /\ SimInit /\ FixInit /\ HoleInit /\ TarInit
        /\ SegInit /\ FindInit /\ BumpInit

Next == SchedNext

Spec == Init /\ [][Next]_vars

\* the timer interrupt keeps coming
FairSpec == Init /\ [][Next]_vars /\ WF_vars(TimerTick)

PrioSpec == Init /\ [][PrioNext]_vars

SyncSpec == Init /\ [][SyncNext]_vars

MapSpec == Init /\ [][MapNext]_vars

ForkSpec == Init /\ [][ForkNext]_vars

FreeSpec == Init /\ [][FreeNext]_vars

HeapSpec == Init /\ [][HeapNext]_vars

SimSpec == Init /\ [][SimNext]_vars

FixSpec == Init /\ [][FixNext]_vars

HoleSpec == Init /\ [][HoleNext]_vars

TarSpec == Init /\ [][TarNext]_vars

SegSpec == Init /\ [][SegNext]_vars

FindSpec == Init /\ [][FindNext]_vars

BumpSpec == Init /\ [][BumpNext]_vars

====
